---- MODULE Spec2Model ----
(***************************************************************************)
(* A model of superduperreload: the ModuleReloader (change detection,      *)
(* re-execution with rollback, tracking table) and the patch rules         *)
(* (update_generic, update_class, update_function, update_instances) of    *)
(* core/superduperreload/superduperreload.py, and the magics that drive    *)
(* it (core/superduperreload/magics.py).                                   *)
(*                                                                         *)
(* Python objects live in `heap`; an object's identity is its index.       *)
(* A dict (a module's __dict__, a class's __dict__) is a sequence of       *)
(* <<key, value>> items in insertion order, as a Python dict iterates.     *)
(* A unit's name is the sequence of its dotted components:                 *)
(* "p.m" is <<"p", "m">>.                                                  *)
(***************************************************************************)
EXTENDS Integers, Sequences, FiniteSets, TLC

VARIABLES
    sys_modules,       \* sys.modules: the loaded unit names, in insertion order
    fs,                \* the source files: unit -> [mtime, prog]
    ns,                \* unit -> module.__dict__
    heap,              \* the objects: sequence of object records
    held,              \* ids of the objects external code holds a reference to
    enabled,           \* ModuleReloader.enabled
    check_all,         \* ModuleReloader.check_all
    autoload_obj,      \* ModuleReloader.autoload_obj
    failed,            \* ModuleReloader.failed: py_filename -> mtime
    modules,           \* ModuleReloader.modules (the allow-list)
    skip_modules,      \* ModuleReloader.skip_modules
    old_objects,       \* ModuleReloader.old_objects: <<unit, name>> -> weakrefs
    updated_obj_ids,   \* ModuleReloader._updated_obj_ids
    modules_mtimes,    \* ModuleReloader.modules_mtimes: unit -> mtime
    reloaded_modules,  \* ModuleReloader.reloaded_modules
    failed_modules,    \* ModuleReloader.failed_modules
    user_ns,           \* shell.user_ns: the caller's working scope
    loaded_modules,    \* AutoreloadMagics.loaded_modules
    out,               \* what the last %aimport listing wrote, and what it raised
    pass,              \* observer: what the last call of check() did
    ever,              \* observer: every binding <<unit, name, id>> a namespace has shown
    lastFail,          \* observer: unit -> the mtime its latest re-execution raised at
    stuck,             \* observer: units whose re-execution raised at the mtime they still have
    quiet,             \* observer: nothing but check() calls happened since the last check()
    edits,             \* observer: the number of source edits so far
    lastMark,          \* observer: unit name -> the latest mark it was given
    unseen,            \* observer: <<unit, why>>, a source that got newer out of check()'s sight
    magic,             \* observer: the last %autoreload line, the settings before it, what it raised
    pc,                \* the shell's position in run_code
    frames,            \* the activations of check() that have not returned
    call               \* observer: the arguments of the last update_generic called on its own

vars == <<sys_modules, fs, ns, heap, held, enabled, check_all, autoload_obj,
          failed, modules, skip_modules, old_objects, updated_obj_ids,
          modules_mtimes, reloaded_modules, failed_modules,
          user_ns, loaded_modules, out,
          pass, ever, lastFail, stuck, quiet, edits, lastMark, unseen,
          magic, pc, frames, call>>

----------------------------------------------------------------------------
(* Bounds of the model.                                                    *)

\* the number of source edits in a behaviour
MaxEdits == 2
\* the largest modification time a source file gets
MaxTime == 2
\* the number of instances external code constructs
MaxInst == 1

----------------------------------------------------------------------------
(* Python dicts.                                                           *)

DictKeys(d) == [i \in 1..Len(d) |-> d[i][1]]

DictHas(d, k) == \E i \in 1..Len(d) : d[i][1] = k

DictGet(d, k) == d[CHOOSE i \in 1..Len(d) : d[i][1] = k][2]

\* d[k] = v: an existing key keeps its place, a new key goes last
DictSet(d, k, v) ==
    IF DictHas(d, k)
    THEN [i \in 1..Len(d) |-> IF d[i][1] = k THEN <<k, v>> ELSE d[i]]
    ELSE Append(d, <<k, v>>)

\* del d[k]
DictDel(d, k) == SelectSeq(d, LAMBDA it : it[1] # k)

SeqRange(s) == {s[i] : i \in 1..Len(s)}

\* the element of a one-element set; The({F(v) : v \in {e}}) is F(e) with e
\* evaluated once
The(s) == CHOOSE x \in s : TRUE

----------------------------------------------------------------------------
(* Values and objects.                                                     *)

\* a value that is no tracked object: a number, a string
Data(v) == [tag |-> "data", v |-> v]
\* a module object: the one sys.modules has under the name u
Mod(u) == [tag |-> "module", v |-> u]
\* a reference to the object heap[id]
Ref(id) == [tag |-> "ref", v |-> id]
\* getattr(C, "__dict__"): the mappingproxy of class C
Proxy(id) == [tag |-> "proxy", v |-> id]

IsRef(x) == x.tag = "ref"

\* a function object: its slots are the attributes _FUNC_ATTRS names
FunctionObj(mod, slots) ==
    [kind |-> "function", module |-> mod, slots |-> slots,
     dict |-> <<>>, cls |-> 0, alive |-> TRUE]

\* a class object with its __dict__
TypeObj(mod, d) ==
    [kind |-> "type", module |-> mod, slots |-> <<>>,
     dict |-> d, cls |-> 0, alive |-> TRUE]

\* an instance of class c; its __module__ is looked up on the class
InstanceObj(mod, c) ==
    [kind |-> "instance", module |-> mod, slots |-> <<>>,
     dict |-> <<>>, cls |-> c, alive |-> TRUE]

\* a property object: its slots are fget, fset and fdel (None is Data(0))
PropertyObj(fget) ==
    [kind |-> "property", module |-> <<>>,
     slots |-> [fget |-> fget, fset |-> Data(0), fdel |-> Data(0)],
     dict |-> <<>>, cls |-> 0, alive |-> TRUE]

\* a bound method: __func__ and __self__
MethodObj(func, self) ==
    [kind |-> "method", module |-> <<>>,
     slots |-> [__func__ |-> func, __self__ |-> self],
     dict |-> <<>>, cls |-> 0, alive |-> TRUE]

\* functools.partial(func) and functools.partialmethod(func)
PartialObj(kind, func) ==
    [kind |-> kind, module |-> <<>>, slots |-> [func |-> func],
     dict |-> <<>>, cls |-> 0, alive |-> TRUE]

\* an instance of a class that derives from property and from
\* functools.partialmethod, made as a property: isinstance holds for both
PropertyMethodObj(fget) ==
    [kind |-> "propertymethod", module |-> <<>>,
     slots |-> [fget |-> fget, fset |-> [tag |-> "data", v |-> 0],
                fdel |-> [tag |-> "data", v |-> 0]],
     dict |-> <<>>, cls |-> 0, alive |-> TRUE]

----------------------------------------------------------------------------
(* Unit names.                                                             *)

UnitM == <<"m">>
UnitOS == <<"os">>
UnitP == <<"p">>
UnitPM == <<"p", "m">>
UnitExt == <<"ext">>
UnitN == <<"n">>
\* a name no file on the import path has
UnitQ == <<"q">>

\* a unit that keeps a record without a __weakref__ slot at top level
UnitT == <<"t">>

Units == {UnitM, UnitOS, UnitP, UnitPM, UnitN, UnitT}

\* the source of a unit cannot be resolved (filename_and_mtime gives None, None)
NoFile == -1

----------------------------------------------------------------------------
(* Source texts.  A program is the sequence of a source file's top-level   *)
(* statements; reload() executes them in order into the module's __dict__  *)
(* and stops at the first one that raises.  A file that does not compile   *)
(* raises before any statement ran.                                        *)

Stmt(op, name, arg, src, attrs) ==
    [op |-> op, name |-> name, arg |-> arg, src |-> src, attrs |-> attrs]

\* name = <value>
Assign(name, v) == Stmt("assign", name, v, "", <<>>)
\* def name(): <body>
Def(name, body) == Stmt("def", name, body, "", <<>>)
\* @deco def name(): <body>, deco returning a functools.wraps closure over it
DecoDef(name, body) == Stmt("decodef", name, body, "", <<>>)
\* class name: <attrs>, each attribute <<key, "def" | "assign" | "property",
\* value>>: a method, a class constant, a method under @property; or
\* <<key, "array" | "nested" | "snan", value>>: a constant that is a numpy
\* array, a tuple of numpy arrays, decimal's signalling NaN
Class(name, attrs) == Stmt("class", name, 0, "", attrs)
\* name = src
Alias(name, src) == Stmt("alias", name, 0, src, <<>>)
\* from ext import name
Import(name, id) == Stmt("import", name, id, "", <<>>)
\* a statement that raises (first in a program: the file does not compile)
Raise == Stmt("raise", "", 0, "", <<>>)

\* name = src(): an instance of the class bound to src
Inst(name, src) == Stmt("inst", name, 0, src, <<>>)

\* del name
Del(name) == Stmt("del", name, 0, "", <<>>)

\* the object `from ext import helper` binds: a function of another unit
ExtHelper == 1

ExtHeap ==
    << FunctionObj(UnitExt,
         ("__closure__" :> 0) @@ ("__code__" :> [body |-> 90, nfree |-> 0]) @@
         ("__defaults__" :> 90) @@ ("__doc__" :> 90) @@ ("__dict__" :> 90) @@
         ("__globals__" :> UnitExt)) >>

\* the sources unit m goes through
ProgsM ==
    << \* 1: the first version
       << Assign("x", 9), Assign("z", 123),
          Def("foo", 1), Alias("bar", "foo"), DecoDef("dec", 1),
          Import("helper", ExtHelper),
          Class("Baz", << <<"K", "assign", 1>>, <<"meth", "def", 1>>,
                          <<"zzz", "def", 1>> >>),
          Alias("Qux", "Baz") >>,
       \* 2: a syntax error
       << Raise >>,
       \* 3: z and Baz.zzz deleted, Baz.power added, bodies and K changed
       << Assign("x", 10),
          Def("foo", 2), Alias("bar", "foo"), DecoDef("dec", 2),
          Import("helper", ExtHelper),
          Class("Baz", << <<"K", "assign", 2>>, <<"meth", "def", 2>>,
                          <<"power", "def", 2>> >>),
          Alias("Qux", "Baz") >>,
       \* 4: raises half way, after rebinding x and foo
       << Assign("x", 11), Def("foo", 3), Raise >>,
       \* 5: the aliases and the import become definitions of their own
       << Assign("x", 12),
          Def("foo", 4), Def("bar", 5), DecoDef("dec", 4), Def("helper", 4),
          Class("Baz", << <<"K", "assign", 3>>, <<"meth", "def", 4>> >>),
          Class("Qux", << <<"meth", "def", 5>> >>) >>,
       \* 6: foo gets a decorator: its code now has a free variable
       << Assign("x", 13), DecoDef("foo", 6) >> >>

\* the sources of the other units: plain data, one of them raising half way
ProgsData ==
    << << Assign("x", 1) >>,
       << Assign("x", 2), Assign("y", 2) >>,
       << Assign("x", 3), Raise >> >>

\* the sources unit n goes through (test_autoload_newly_added_objects)
ProgsN ==
    << \* 1: the first version
       << Def("func1", 1) >>,
       \* 2: a function, a class and a number no version had before
       << Def("func1", 1), Def("func2", 1), Class("Test", <<>>),
          Assign("number", 0) >>,
       \* 3: raises after rebinding func1
       << Def("func1", 2), Raise >> >>

\* the sources unit t goes through: a class with __slots__, an instance of
\* it, a helper function and a second name for it
ProgsT ==
    << \* 1: the first version
       << Class("S", << <<"__slots__", "assign", 0>> >>), Inst("s", "S"),
          Def("helper", 1), Alias("tool", "helper") >>,
       \* 2: a syntax error
       << Raise >>,
       \* 3: helper is deleted at the end of the source
       << Class("S", << <<"__slots__", "assign", 0>> >>), Inst("s", "S"),
          Def("helper", 2), Alias("tool", "helper"), Del("helper") >>,
       \* 4: helper is no longer defined, tool is a function of its own
       << Class("S", << <<"__slots__", "assign", 0>> >>), Inst("s", "S"),
          Def("tool", 3) >>,
       \* 5: helper and tool are two functions
       << Class("S", << <<"__slots__", "assign", 0>> >>), Inst("s", "S"),
          Def("helper", 4), Def("tool", 5) >> >>

Progs(u) ==
    IF u = UnitM THEN ProgsM
    ELSE IF u = UnitN THEN ProgsN
    ELSE IF u = UnitT THEN ProgsT
    ELSE ProgsData

----------------------------------------------------------------------------
(* Executing a program: importlib.reload(module).                          *)

PlainSlots(u, body) ==
    ("__closure__" :> 0) @@ ("__code__" :> [body |-> body, nfree |-> 0]) @@
    ("__defaults__" :> body) @@ ("__doc__" :> body) @@ ("__dict__" :> body) @@
    ("__globals__" :> u)

\* the wrapper a decorator returns: its code calls the function in its closure
\* cell; functools.wraps copied the function's __doc__ and __dict__ onto it
WrapperSlots(u, body) ==
    ("__closure__" :> body) @@ ("__code__" :> [body |-> 0, nfree |-> 1]) @@
    ("__defaults__" :> 0) @@ ("__doc__" :> body) @@ ("__dict__" :> body) @@
    ("__globals__" :> u)

\* what calling function f runs: the body of its code, or for a wrapper
\* the body of the function in its closure cell
Call(h, f) ==
    IF h[f].slots["__code__"].nfree = 0
    THEN h[f].slots["__code__"].body
    ELSE h[f].slots["__closure__"]

\* the class body: every def makes a function object, in order, and
\* @property wraps it into a property object
RECURSIVE ExecClassBody(_, _, _, _, _)
ExecClassBody(h, u, attrs, i, d) ==
    IF i > Len(attrs) THEN [h |-> h, d |-> d]
    ELSE LET a == attrs[i] IN
         IF a[2] = "def"
         THEN ExecClassBody(Append(h, FunctionObj(u, PlainSlots(u, a[3]))),
                            u, attrs, i + 1,
                            DictSet(d, a[1], Ref(Len(h) + 1)))
         ELSE IF a[2] = "property"
         THEN ExecClassBody(h \o <<FunctionObj(u, PlainSlots(u, a[3])),
                                   PropertyObj(Ref(Len(h) + 1))>>,
                            u, attrs, i + 1,
                            DictSet(d, a[1], Ref(Len(h) + 2)))
         ELSE IF a[2] = "assign"
         THEN ExecClassBody(h, u, attrs, i + 1, DictSet(d, a[1], Data(a[3])))
         ELSE ExecClassBody(h, u, attrs, i + 1,
                            DictSet(d, a[1], [tag |-> a[2], v |-> a[3]]))

\* one top-level statement on X = [ns, h, exc]
ExecStmt(X, u, st) ==
    CASE st.op = "assign" ->
           [X EXCEPT !.ns = DictSet(X.ns, st.name, Data(st.arg))]
      [] st.op = "def" ->
           [X EXCEPT !.h = Append(X.h, FunctionObj(u, PlainSlots(u, st.arg))),
                     !.ns = DictSet(X.ns, st.name, Ref(Len(X.h) + 1))]
      [] st.op = "decodef" ->
           [X EXCEPT !.h = Append(X.h, FunctionObj(u, WrapperSlots(u, st.arg))),
                     !.ns = DictSet(X.ns, st.name, Ref(Len(X.h) + 1))]
      [] st.op = "class" ->
           The({ [X EXCEPT !.h = Append(b.h,
                                  TypeObj(u, IF DictHas(b.d, "__slots__") THEN b.d
                                             ELSE Append(b.d, <<"__dict__",
                                                          Proxy(Len(b.h) + 1)>>))),
                          !.ns = DictSet(X.ns, st.name, Ref(Len(b.h) + 1))] :
                 b \in {ExecClassBody(X.h, u, st.attrs, 1, <<>>)} })
      [] st.op = "alias" ->
           IF DictHas(X.ns, st.src)
           THEN [X EXCEPT !.ns = DictSet(X.ns, st.name, DictGet(X.ns, st.src))]
           ELSE [X EXCEPT !.exc = TRUE]   \* NameError
      [] st.op = "import" ->
           [X EXCEPT !.ns = DictSet(X.ns, st.name, Ref(st.arg))]
      [] st.op = "inst" ->
           IF DictHas(X.ns, st.src)
           THEN [X EXCEPT !.h = Append(X.h,
                                  InstanceObj(u, DictGet(X.ns, st.src).v)),
                          !.ns = DictSet(X.ns, st.name, Ref(Len(X.h) + 1))]
           ELSE [X EXCEPT !.exc = TRUE]   \* NameError
      [] st.op = "del" ->
           IF DictHas(X.ns, st.name)
           THEN [X EXCEPT !.ns = DictDel(X.ns, st.name)]
           ELSE [X EXCEPT !.exc = TRUE]   \* NameError
      [] OTHER -> [X EXCEPT !.exc = TRUE]

RECURSIVE Exec(_, _, _, _)
Exec(X, u, prog, i) ==
    IF X.exc \/ i > Len(prog) THEN X
    ELSE Exec(ExecStmt(X, u, prog[i]), u, prog, i + 1)

\* the names program p binds when it runs to its end
Defines(prog) == {prog[i].name : i \in 1..Len(prog)} \ {""}

----------------------------------------------------------------------------
(* The patch rules.  A rule works on S = [h, exc]: the heap, and whether   *)
(* an exception is propagating (nothing runs after it was raised).         *)

\* ModuleReloader._NOT_FOUND
NOT_FOUND == [tag |-> "NOT_FOUND", v |-> 0]

FUNC_ATTRS ==
    <<"__closure__", "__code__", "__defaults__", "__doc__", "__dict__",
      "__globals__">>

ClassCallableTypes ==
    {"function", "method", "property", "partial", "partialmethod"}

\* isinstance(x, typ) for the kinds of object the rules tell apart
\* the types of UPDATE_RULES object o is an instance of
KindsOf(o) ==
    IF o.kind = "propertymethod" THEN {"property", "partialmethod"}
    ELSE {o.kind}

IsInstance(h, x, kind) == IsRef(x) /\ kind \in KindsOf(h[x.v])

IsCallableLike(h, x) == \E k \in ClassCallableTypes : IsInstance(h, x, k)

isinstance2(h, a, b, kind) == IsInstance(h, a, kind) /\ IsInstance(h, b, kind)

\* a == b: "True", "False", "array" (a result that is neither), or the
\* exception it raises.  Numbers compare by value, functions, classes and
\* instances by identity; two mappingproxies are equal when the class dicts
\* are, and the dicts of two classes differ in their "__dict__" descriptors
\* at least.  An array compared with an array or a number gives an array of
\* truth values; two tuples of arrays raise ValueError when the truth value
\* of the first pair's result is taken; a signalling NaN of decimal raises
\* InvalidOperation when compared with a number
Compare(a, b) ==
    CASE {a.tag, b.tag} \subseteq {"snan", "data"} /\ "snan" \in {a.tag, b.tag}
           -> "InvalidOperation"
      [] a.tag = "nested" /\ b.tag = "nested" -> "ValueError"
      [] {a.tag, b.tag} \subseteq {"array", "data"} /\ "array" \in {a.tag, b.tag}
           -> "array"
      [] OTHER -> IF a = b THEN "True" ELSE "False"

\* what update_class makes of a comparison that did not give True: its
\* result is something else, or ValueError was raised and caught
TreatedAsUnequal(c) == c \in {"False", "array", "ValueError"}

\* (a == b) is True
PyEq(a, b) == Compare(a, b) = "True"

\* the number of cells of a function's closure
NCells(o) == IF o.slots["__closure__"] = 0 THEN 0 ELSE 1

\* setattr(f, name, val) on a function: "" when it succeeds, or the exception.
\* __closure__ and __globals__ are read-only; __code__ must have as many free
\* variables as the function has closure cells
FuncSetAttrError(o, name, val) ==
    IF name \in {"__closure__", "__globals__"} THEN "AttributeError"
    ELSE IF name = "__code__" /\ val.nfree # NCells(o) THEN "ValueError"
    ELSE ""

\* setattr(C, key, val) and delattr(C, key) on a class: "" or the exception.
\* The "__dict__" attribute of a type is not writable
TypeSetAttrError(o, key) ==
    IF key = "__dict__" THEN "AttributeError" ELSE ""

TypeDelAttrError(o, key) ==
    IF key = "__dict__" \/ ~DictHas(o.dict, key) THEN "AttributeError" ELSE ""

\* the except clauses of the rules: except (AttributeError, TypeError): pass
Caught == {"AttributeError", "TypeError"}

\* try: setattr(old, name, getattr(new, name)) except ...: pass
FuncCopyAttr(S, old, new, name) ==
    LET val == S.h[new].slots[name]
        err == FuncSetAttrError(S.h[old], name, val)
    IN IF err = "" THEN [S EXCEPT !.h[old].slots[name] = val]
       ELSE IF err \in Caught THEN S
       ELSE [S EXCEPT !.exc = TRUE]

RECURSIVE FuncCopyAttrs(_, _, _, _)
FuncCopyAttrs(S, old, new, i) ==
    IF S.exc \/ i > Len(FUNC_ATTRS) THEN S
    ELSE FuncCopyAttrs(FuncCopyAttr(S, old, new, FUNC_ATTRS[i]), old, new, i + 1)

\* update_function(old, new) on two values.  On anything but two function
\* objects every getattr or setattr of a _FUNC_ATTRS name raises
\* AttributeError or TypeError, which the rule swallows
update_function(S, a, b) ==
    IF a = b THEN S
    ELSE IF isinstance2(S.h, a, b, "function")
         THEN FuncCopyAttrs(S, a.v, b.v, 1)
         ELSE S

\* update_method(old, new): old.__func__ raises AttributeError on anything
\* but a bound method, and nothing catches it
update_method(S, a, b) ==
    IF a = b THEN S
    ELSE IF isinstance2(S.h, a, b, "method")
         THEN update_function(S, S.h[a.v].slots["__func__"],
                                 S.h[b.v].slots["__func__"])
         ELSE [S EXCEPT !.exc = TRUE]

\* update_partial(old, new)
update_partial(S, a, b) ==
    IF a = b THEN S
    ELSE update_function(S, S.h[a.v].slots["func"], S.h[b.v].slots["func"])

\* update_partialmethod(old, new)
update_partialmethod(S, a, b) ==
    IF a = b THEN S
    ELSE IF "func" \notin DOMAIN S.h[a.v].slots
              \/ "func" \notin DOMAIN S.h[b.v].slots
    THEN [S EXCEPT !.exc = TRUE]              \* old.func: AttributeError
    ELSE update_method(S, S.h[a.v].slots["func"], S.h[b.v].slots["func"])

\* a class rule that forgets the instances
update_instances_none(S, old, new) == S

\* the memory layout of the instances of class c: with __slots__ in the
\* class body the instances have no __dict__, and the class no __dict__
\* descriptor, which no setattr on the class adds or removes
Layout(h, c) == IF DictHas(h[c].dict, "__dict__") THEN "dict" ELSE "slots"

\* the referrers of old that update_instances retargets: type(ref) is old
InstancesOf(h, old) ==
    {i \in 1..Len(h) : h[i].alive /\ h[i].kind = "instance" /\ h[i].cls = old}

\* update_instances(old, new): every live object whose type is old; the
\* assignment to __class__ raises TypeError when the layouts differ
update_instances(S, old, new) ==
    IF old = new THEN S
    ELSE IF InstancesOf(S.h, old) # {} /\ Layout(S.h, old) # Layout(S.h, new)
    THEN [S EXCEPT !.exc = TRUE]
    ELSE [S EXCEPT !.h =
            [i \in 1..Len(S.h) |->
               IF S.h[i].alive /\ S.h[i].kind = "instance" /\ S.h[i].cls = old
               THEN [S.h[i] EXCEPT !.cls = new]
               ELSE S.h[i]]]

\* try: setattr(C, key, val) except (AttributeError, TypeError): pass
TypeSetAttr(S, c, key, val) ==
    LET err == TypeSetAttrError(S.h[c], key)
    IN IF err = "" THEN [S EXCEPT !.h[c].dict = DictSet(S.h[c].dict, key, val)]
       ELSE IF err \in Caught THEN S
       ELSE [S EXCEPT !.exc = TRUE]

\* a delattr that deletes nothing
TypeDelAttrNone(S, c, key) == S

\* try: delattr(C, key) except (AttributeError, TypeError): pass
TypeDelAttr(S, c, key) ==
    LET err == TypeDelAttrError(S.h[c], key)
    IN IF err = "" THEN [S EXCEPT !.h[c].dict = DictDel(S.h[c].dict, key)]
       ELSE IF err \in Caught THEN S
       ELSE [S EXCEPT !.exc = TRUE]

\* getattr(C, key, NOT_FOUND) on a class (no base classes in the model);
\* every class has a __dict__, which type gives it
TypeGetAttr(h, c, key) ==
    IF DictHas(h[c].dict, key) THEN DictGet(h[c].dict, key)
    ELSE IF key = "__dict__" THEN Proxy(c)
    ELSE NOT_FOUND

UPDATE_RULES ==
    <<"type", "function", "method", "property", "partial", "partialmethod">>

RECURSIVE update_generic(_, _, _)
RECURSIVE update_class(_, _, _)
RECURSIVE update_property(_, _, _)
RECURSIVE ClassOldKeys(_, _, _, _, _)
RECURSIVE ClassNewKeys(_, _, _, _, _)

\* a class rule in which the new value wins for data too
ClassPrecedenceNewWins(S, old, new, key, old_obj, new_obj) ==
    IF new_obj = NOT_FOUND /\ IsCallableLike(S.h, old_obj)
    THEN TypeDelAttr(S, old, key)
    ELSE TypeSetAttr(S, old, key, new_obj)

\* a class rule that leaves a callable to the dispatcher alone: the old
\* type keeps the attribute object it has
ClassPrecedenceKeep(S, old, new, key, old_obj, new_obj) ==
    IF new_obj = NOT_FOUND /\ IsCallableLike(S.h, old_obj)
    THEN TypeDelAttr(S, old, key)
    ELSE IF ~IsCallableLike(S.h, old_obj) \/ ~IsCallableLike(S.h, new_obj)
         THEN TypeSetAttr(S, new, key, old_obj)
         ELSE S

\* a class rule that removes every attribute the new type does not have
ClassPrecedenceDrop(S, old, new, key, old_obj, new_obj) ==
    IF new_obj = NOT_FOUND
    THEN TypeDelAttr(S, old, key)
    ELSE IF ~IsCallableLike(S.h, old_obj) \/ ~IsCallableLike(S.h, new_obj)
         THEN TypeSetAttr(S, new, key, old_obj)
         ELSE TypeSetAttr(S, old, key, new_obj)

\* the precedence rule of update_class for one key of the old class
ClassPrecedence(S, old, new, key, old_obj, new_obj) ==
    IF new_obj = NOT_FOUND /\ IsCallableLike(S.h, old_obj)
    THEN TypeDelAttr(S, old, key)
    ELSE IF ~IsCallableLike(S.h, old_obj) \/ ~IsCallableLike(S.h, new_obj)
         THEN TypeSetAttr(S, new, key, old_obj)
         ELSE TypeSetAttr(S, old, key, new_obj)

\* the first loop of update_class: for key in list(old.__dict__.keys())
ClassOldKeys(S, old, new, keys, i) ==
    IF S.exc \/ i > Len(keys) THEN S
    ELSE LET key == keys[i] IN
         IF ~DictHas(S.h[old].dict, key)
         THEN [S EXCEPT !.exc = TRUE]          \* getattr(old, key) raises
         ELSE LET old_obj == DictGet(S.h[old].dict, key)
                  new_obj == TypeGetAttr(S.h, new, key)
              IN IF PyEq(old_obj, new_obj)
                 THEN ClassOldKeys(S, old, new, keys, i + 1)
                 ELSE IF ~TreatedAsUnequal(Compare(old_obj, new_obj))
                 THEN [S EXCEPT !.exc = TRUE]      \* the comparison raised
                 ELSE ClassOldKeys(
                        update_generic(
                          ClassPrecedence(S, old, new, key, old_obj, new_obj),
                          old_obj, new_obj),
                        old, new, keys, i + 1)

\* a second loop that copies nothing
ClassNewKeysNone(S, old, new, keys, i) == S

\* the second loop of update_class: for key in list(new.__dict__.keys())
ClassNewKeys(S, old, new, keys, i) ==
    IF S.exc \/ i > Len(keys) THEN S
    ELSE LET key == keys[i] IN
         IF ~DictHas(S.h[old].dict, key)
         THEN ClassNewKeys(TypeSetAttr(S, old, key, TypeGetAttr(S.h, new, key)),
                           old, new, keys, i + 1)
         ELSE ClassNewKeys(S, old, new, keys, i + 1)

update_class(S, a, b) ==
    IF a = b THEN S
    ELSE The({ IF S2.exc THEN S2 ELSE update_instances(S2, a.v, b.v) :
               S2 \in { IF S1.exc THEN S1
                        ELSE ClassNewKeys(S1, a.v, b.v,
                                          DictKeys(S1.h[b.v].dict), 1) :
                        S1 \in {ClassOldKeys(S, a.v, b.v,
                                             DictKeys(S.h[a.v].dict), 1)} } })

update_property(S, a, b) ==
    IF a = b THEN S
    ELSE The({ IF S2.exc THEN S2
               ELSE update_generic(S2, S2.h[a.v].slots["fset"],
                                       S2.h[b.v].slots["fset"]) :
               S2 \in { IF S1.exc THEN S1
                        ELSE update_generic(S1, S1.h[a.v].slots["fget"],
                                                S1.h[b.v].slots["fget"]) :
                        S1 \in {update_generic(S, S.h[a.v].slots["fdel"],
                                                  S.h[b.v].slots["fdel"])} } })

\* a dispatcher that applies the last rule whose type_check holds
LastRule(h, a, b) ==
    IF \E i \in 1..Len(UPDATE_RULES) : isinstance2(h, a, b, UPDATE_RULES[i])
    THEN CHOOSE i \in 1..Len(UPDATE_RULES) :
           /\ isinstance2(h, a, b, UPDATE_RULES[i])
           /\ \A j \in (i + 1)..Len(UPDATE_RULES) :
                ~isinstance2(h, a, b, UPDATE_RULES[j])
    ELSE 0

\* the index of the first rule of UPDATE_RULES whose type_check holds, or 0
FirstRule(h, a, b) ==
    IF \E i \in 1..Len(UPDATE_RULES) : isinstance2(h, a, b, UPDATE_RULES[i])
    THEN CHOOSE i \in 1..Len(UPDATE_RULES) :
           /\ isinstance2(h, a, b, UPDATE_RULES[i])
           /\ \A j \in 1..(i - 1) : ~isinstance2(h, a, b, UPDATE_RULES[j])
    ELSE 0

update_generic(S, a, b) ==
    IF S.exc \/ a = b THEN S
    ELSE LET r == FirstRule(S.h, a, b) IN
         CASE r = 1 -> update_class(S, a, b)
           [] r = 2 -> update_function(S, a, b)
           [] r = 3 -> update_method(S, a, b)
           [] r = 4 -> update_property(S, a, b)
           [] r = 5 -> update_partial(S, a, b)
           [] r = 6 -> update_partialmethod(S, a, b)
           [] OTHER -> S

----------------------------------------------------------------------------
(* ModuleReloader.superduperreload.                                        *)

\* self.old_objects.setdefault(key, []).append(weakref.ref(obj))
OldAppend(old, key, id) ==
    IF key \in DOMAIN old
    THEN [old EXCEPT ![key] = Append(@, id)]
    ELSE old @@ (key :> <<id>>)

\* self.old_objects.setdefault(key, []), which is evaluated before
\* weakref.ref(obj) raises the TypeError that append_obj swallows
OldSetDefault(old, key) ==
    IF key \in DOMAIN old THEN old ELSE old @@ (key :> <<>>)

\* weakref.ref(obj) raises TypeError for an instance of a class whose
\* __slots__ leave out __weakref__
WeakRefable(h, id) ==
    ~(h[id].kind = "instance" /\ Layout(h, h[id].cls) = "slots")

\* an empty dict kept as a function
EmptyMap == <<>>

\* d.pop(key, None) on a dict kept as a function
MapPop(f, key) ==
    IF (DOMAIN f) \ {key} = {} THEN EmptyMap
    ELSE [k \in (DOMAIN f) \ {key} |-> f[k]]

\* self.old_objects.pop(key, None)
OldPop(old, key) == MapPop(old, key)

\* append_obj(module, name, obj): only an object whose __module__ is the
\* unit's name is recorded (numbers and strings have no __module__)
append_obj(h, old, u, name, obj) ==
    IF IsRef(obj) /\ h[obj.v].module = u
    THEN IF WeakRefable(h, obj.v)
         THEN OldAppend(old, <<u, name>>, obj.v)
         ELSE OldSetDefault(old, <<u, name>>)
    ELSE old

\* for name, obj in list(module.__dict__.items()): self.append_obj(...)
RECURSIVE CollectOld(_, _, _, _, _)
CollectOld(h, old, u, d, i) ==
    IF i > Len(d) THEN old
    ELSE CollectOld(h, append_obj(h, old, u, d[i][1], d[i][2]), u, d, i + 1)

\* old_obj_id in self._updated_obj_ids
AlreadyUpdated(upd, id) == id \in upd

\* the loop over self.old_objects[key] for one name of the new namespace,
\* on P = [h, upd, exc, new_refs]
RECURSIVE PatchRefs(_, _, _, _)
PatchRefs(P, refs, new_obj, i) ==
    IF P.exc \/ i > Len(refs) THEN P
    ELSE LET id == refs[i] IN
         IF ~P.h[id].alive                       \* old_ref() is None
         THEN PatchRefs(P, refs, new_obj, i + 1)
         ELSE LET P1 == [P EXCEPT !.new_refs = Append(@, id)] IN
              IF Ref(id) = new_obj \/ AlreadyUpdated(P.upd, id)
              THEN PatchRefs(P1, refs, new_obj, i + 1)
              ELSE The({ IF S.exc
                         THEN [P1 EXCEPT !.h = S.h, !.exc = TRUE]
                         ELSE PatchRefs([P1 EXCEPT !.h = S.h,
                                                   !.upd = @ \cup {id}],
                                        refs, new_obj, i + 1) :
                         S \in {update_generic([h |-> P.h, exc |-> FALSE],
                                               Ref(id), new_obj)} })

\* for name, new_obj in list(module.__dict__.items()), on Q = [h, old, upd, exc]
RECURSIVE PatchNames(_, _, _, _)
PatchNames(Q, u, d, i) ==
    IF Q.exc \/ i > Len(d) THEN Q
    ELSE LET key == <<u, d[i][1]>> IN
         IF key \notin DOMAIN Q.old
         THEN PatchNames(Q, u, d, i + 1)
         ELSE The({ IF P.exc
                    THEN [Q EXCEPT !.h = P.h, !.upd = P.upd, !.exc = TRUE]
                    ELSE PatchNames(
                           [Q EXCEPT !.h = P.h, !.upd = P.upd,
                                     !.old = IF P.new_refs # <<>>
                                             THEN [Q.old EXCEPT
                                                     ![key] = P.new_refs]
                                             ELSE OldPop(Q.old, key)],
                           u, d, i + 1) :
                    P \in {PatchRefs([h |-> Q.h, upd |-> Q.upd, exc |-> FALSE,
                                      new_refs |-> <<>>],
                                     Q.old[key], d[i][2], 1)} })

\* a failed reload that leaves the namespace as the re-execution left it
RestoreNone(d, old_dict) == d

\* restore module dictionary on failed reload:
\* module.__dict__.clear(); module.__dict__.update(old_dict)
Restore(d, old_dict) == old_dict

\* superduperreload(module) for unit u whose source is prog, on the unit's
\* namespace d, the heap h and the tracking table old.  The result tells
\* what was raised: "" (nothing), "reload" (reload(module) raised and the
\* namespace was restored) or "patch" (a patch rule raised)
\* the loop over the new namespace new_dict, after reload(module) returned
PatchAll(new_dict, h, old1, u) ==
    The({ [ns |-> new_dict, h |-> Q.h, old |-> Q.old, upd |-> Q.upd,
           raised |-> IF Q.exc THEN "patch" ELSE ""] :
          Q \in {PatchNames([h |-> h, old |-> old1, upd |-> {}, exc |-> FALSE],
                            u, new_dict, 1)} })

superduperreload(d, h, old, u, prog) ==
    The({ IF Y.X.exc
          THEN [ns |-> Restore(Y.X.ns, Y.old_dict), h |-> Y.X.h,
                old |-> Y.old1, upd |-> {}, raised |-> "reload"]
          ELSE PatchAll(Y.X.ns, Y.X.h, Y.old1, u) :
          Y \in {[old1 |-> CollectOld(h, old, u, d, 1),
                  old_dict |-> d,
                  X |-> Exec([ns |-> d, h |-> h, exc |-> FALSE], u, prog, 1)]} })

----------------------------------------------------------------------------
(* ModuleReloader.check.                                                   *)

\* a filename_and_mtime that takes a source it cannot stat for a new one
filename_and_mtime_nostat(loaded, files, modname) ==
    IF modname \notin SeqRange(loaded) THEN NoFile
    ELSE IF files[modname].mtime = NoFile THEN MaxTime + MaxEdits + 1
    ELSE files[modname].mtime

\* filename_and_mtime(sys.modules.get(modname)): NoFile stands for
\* (None, None); the file of a unit is named by the unit
filename_and_mtime(loaded, files, modname) ==
    IF modname \notin SeqRange(loaded) THEN NoFile   \* m is None: no __name__
    ELSE files[modname].mtime

\* any(".".join(package_components[:idx]) in self.skip_modules
\*     for idx in range(1, len(package_components)))
ParentSkipped(skip, modname) ==
    \E idx \in 1..(Len(modname) - 1) : SubSeq(modname, 1, idx) \in skip

\* self.failed.pop(py_filename, None)
FailedPop(f, fn) == MapPop(f, fn)

\* d[k] = v on a dict kept as a function
MapSet(f, k, v) == [x \in (DOMAIN f) \cup {k} |-> IF x = k THEN v ELSE f[x]]

\* the try block around self.superduperreload(m), on the loop state C
TryReload(C, files, modname, pymtime) ==
    The({ IF r.raised = ""
          THEN [C EXCEPT !.ns[modname] = r.ns, !.h = r.h, !.old = r.old,
                         !.upd = r.upd,
                         !.exec = Append(@, modname),
                         !.raised = MapSet(@, modname, r.raised),
                         !.failed = FailedPop(@, modname),
                         !.reloaded = Append(@, modname)]
          ELSE [C EXCEPT !.ns[modname] = r.ns, !.h = r.h, !.old = r.old,
                         !.upd = r.upd,
                         !.exec = Append(@, modname),
                         !.raised = MapSet(@, modname, r.raised),
                         !.failed = MapSet(@, modname, pymtime),
                         !.failedm = Append(@, modname)] :
          r \in {superduperreload(C.ns[modname], C.h, C.old, modname,
                                  Progs(modname)[files[modname].prog])} })

\* a loop body that takes a unit without a cached modification time for a
\* changed one
CheckUnitNoBaseline(C, loaded, files, skip, modname, do_reload) ==
    LET pymtime == filename_and_mtime(loaded, files, modname) IN
    IF ParentSkipped(skip, modname) THEN C
    ELSE IF pymtime = NoFile THEN C
    ELSE IF modname \in DOMAIN C.mt /\ pymtime <= C.mt[modname] THEN C
    ELSE IF modname \in DOMAIN C.failed /\ C.failed[modname] = pymtime THEN C
    ELSE IF ~do_reload THEN [C EXCEPT !.mt = MapSet(@, modname, pymtime)]
    ELSE TryReload([C EXCEPT !.mt = MapSet(@, modname, pymtime),
                             !.report = Append(@, modname)],
                   files, modname, pymtime)

\* a loop body that never calls the report callback
CheckUnitSilent(C, loaded, files, skip, modname, do_reload) ==
    LET pymtime == filename_and_mtime(loaded, files, modname) IN
    IF ParentSkipped(skip, modname) THEN C
    ELSE IF pymtime = NoFile THEN C
    ELSE IF modname \notin DOMAIN C.mt
         THEN [C EXCEPT !.mt = MapSet(@, modname, pymtime)]
    ELSE IF pymtime <= C.mt[modname] THEN C
    ELSE IF modname \in DOMAIN C.failed /\ C.failed[modname] = pymtime THEN C
    ELSE IF ~do_reload THEN [C EXCEPT !.mt = MapSet(@, modname, pymtime)]
    ELSE TryReload([C EXCEPT !.mt = MapSet(@, modname, pymtime)],
                   files, modname, pymtime)

\* the body of: for modname in modules
CheckUnit(C, loaded, files, skip, modname, do_reload) ==
    LET pymtime == filename_and_mtime(loaded, files, modname) IN
    IF ParentSkipped(skip, modname) THEN C
    ELSE IF pymtime = NoFile THEN C
    ELSE IF modname \notin DOMAIN C.mt                        \* KeyError
         THEN [C EXCEPT !.mt = MapSet(@, modname, pymtime)]
    ELSE IF pymtime <= C.mt[modname] THEN C
    ELSE IF modname \in DOMAIN C.failed /\ C.failed[modname] = pymtime THEN C
    ELSE LET C1 == [C EXCEPT !.mt = MapSet(@, modname, pymtime)] IN
         IF ~do_reload THEN C1
         ELSE TryReload([C1 EXCEPT !.report = Append(@, modname)],
                        files, modname, pymtime)

\* a loop that gives up at the first unit whose reload failed
RECURSIVE CheckLoopStop(_, _, _, _, _, _, _)
CheckLoopStop(C, loaded, files, skip, order, i, do_reload) ==
    IF i > Len(order) \/ C.failedm # <<>> THEN C
    ELSE CheckLoopStop(CheckUnit(C, loaded, files, skip, order[i], do_reload),
                       loaded, files, skip, order, i + 1, do_reload)

RECURSIVE CheckLoop(_, _, _, _, _, _, _)
CheckLoop(C, loaded, files, skip, order, i, do_reload) ==
    IF i > Len(order) THEN C
    ELSE CheckLoop(CheckUnit(C, loaded, files, skip, order[i], do_reload),
                   loaded, files, skip, order, i + 1, do_reload)

\* a check() that never returns early
ReturnsEarlyNever(en, force) == FALSE

\* if not self.enabled and not check_all: return
ReturnsEarly(en, force) == ~en /\ ~force

\* the orders list(s) can have for a set s
Orders(s) ==
    {o \in [1..Cardinality(s) -> s] : \A x \in s : \E i \in DOMAIN o : o[i] = x}

\* a check() that always goes through everything loaded
ModulesToCheckAll(force, ca, loaded, allow) == {loaded}

\* the list check() goes through: list(sys.modules.keys()), in insertion
\* order, or list(self.modules), a set, in any order
ModulesToCheck(force, ca, loaded, allow) ==
    IF force \/ ca THEN {loaded} ELSE Orders(allow)

\* the state a pass of check() starts from: the result lists cleared
LoopStart ==
    [mt |-> modules_mtimes, failed |-> failed, ns |-> ns, h |-> heap,
     old |-> old_objects, upd |-> updated_obj_ids,
     reloaded |-> <<>>, failedm |-> <<>>,
     exec |-> <<>>, raised |-> EmptyMap, report |-> <<>>]

----------------------------------------------------------------------------
(* What the observers record about a call of check().                      *)

\* unit u has nothing check() could stat: it is not loaded (no module
\* object, so no __name__), or it has no source file (a package without one,
\* a file that was removed)
Unresolvable(loaded, files, u) ==
    u \notin SeqRange(loaded) \/ files[u].mtime = NoFile

\* the units a pass looks at: in its list, no parent package skipped, and
\* with a source that resolves
Examined(order, loaded, files, skip) ==
    {u \in SeqRange(order) :
       ~ParentSkipped(skip, u) /\ filename_and_mtime(loaded, files, u) # NoFile}

\* the units in state DUE when a pass starts: examined, not in the skip set,
\* the source newer than the cached modification time, and not recorded as
\* failed at the modification time the source has
Due(order, loaded, files, skip, mt, f) ==
    {u \in Examined(order, loaded, files, skip) :
       /\ u \notin skip
       /\ u \in DOMAIN mt
       /\ files[u].mtime > mt[u]
       /\ ~(u \in DOMAIN f /\ f[u] = files[u].mtime)}

\* the bindings <<unit, name, object>> the namespaces show
Bindings(nss) ==
    UNION {{<<u, nss[u][i][1], nss[u][i][2].v>> :
              i \in {j \in 1..Len(nss[u]) : IsRef(nss[u][j][2])}} :
           u \in DOMAIN nss}

\* update_generic was not called on its own
NoCall == [a |-> [tag |-> "data", v |-> 0], b |-> [tag |-> "data", v |-> 0]]

\* no call of check() yet
NoPass ==
    [called |-> FALSE, ran |-> FALSE, forced |-> FALSE,
     exec |-> <<>>, raised |-> EmptyMap, prog |-> EmptyMap,
     mtime |-> EmptyMap, ns0 |-> EmptyMap, h0 |-> <<>>,
     mt0 |-> EmptyMap, failed0 |-> EmptyMap, report |-> <<>>,
     listed |-> {}, nofile |-> {}, unseen0 |-> {},
     due |-> {}, examined |-> {}, skipped |-> {}, stuck0 |-> {},
     recoverable |-> {},
     hasPrev |-> FALSE, prevForced |-> FALSE, quiet0 |-> FALSE]

\* the units of a pass whose reload(module) raised / did not raise
ExecFailed(C) == {u \in SeqRange(C.exec) : C.raised[u] = "reload"}
ExecDone(C) == {u \in SeqRange(C.exec) : C.raised[u] # "reload"}

----------------------------------------------------------------------------
(* The operations.                                                         *)

reloaderVars ==
    <<failed, old_objects, updated_obj_ids, modules_mtimes,
      reloaded_modules, failed_modules>>
settingVars == <<enabled, check_all, autoload_obj, modules, skip_modules>>
worldVars == <<sys_modules, fs, ns, heap, held>>
shellVars == <<user_ns, loaded_modules, out>>
cellVars == <<magic, pc, frames, call>>

\* check(check_all=force): one call, from the pre_run_cell hook (which calls
\* it only while enabled), from %autoreload now (forced), or made directly
Check(force) ==
    IF ReturnsEarly(enabled, force)
    THEN /\ pass' = [NoPass EXCEPT !.called = TRUE, !.forced = force,
                                   !.ns0 = ns, !.mt0 = modules_mtimes,
                                   !.failed0 = failed, !.unseen0 = unseen,
                                   !.hasPrev = pass.called,
                                   !.prevForced = pass.forced,
                                   !.quiet0 = quiet,
                                   !.stuck0 = stuck]
         /\ quiet' = TRUE
         /\ UNCHANGED <<worldVars, settingVars, reloaderVars, shellVars, ever,
                        lastFail, stuck, edits, lastMark, unseen>>
    ELSE \E order \in ModulesToCheck(force, check_all, sys_modules, modules) :
         \E C \in {CheckLoop(LoopStart, sys_modules, fs, skip_modules,
                              order, 1, TRUE)} :
         LET ex == Examined(order, sys_modules, fs, skip_modules)
         IN /\ modules_mtimes' = C.mt
            /\ failed' = C.failed
            /\ ns' = C.ns
            /\ heap' = C.h
            /\ old_objects' = C.old
            /\ updated_obj_ids' = C.upd
            /\ reloaded_modules' = C.reloaded
            /\ failed_modules' = C.failedm
            /\ pass' = [called |-> TRUE, ran |-> TRUE, forced |-> force,
                        exec |-> C.exec, raised |-> C.raised,
                        prog |-> [u \in SeqRange(C.exec) |-> fs[u].prog],
                        mtime |-> [u \in SeqRange(C.exec) |-> fs[u].mtime],
                        ns0 |-> ns, h0 |-> heap,
                        mt0 |-> modules_mtimes, failed0 |-> failed,
                        report |-> C.report,
                        listed |-> SeqRange(order),
                        nofile |-> {u \in SeqRange(order) :
                                      Unresolvable(sys_modules, fs, u)},
                        unseen0 |-> unseen,
                        due |-> Due(order, sys_modules, fs, skip_modules,
                                    modules_mtimes, failed),
                        examined |-> ex,
                        skipped |-> {u \in SeqRange(C.exec) :
                                       u \in skip_modules
                                       \/ ParentSkipped(skip_modules, u)},
                        stuck0 |-> stuck,
                        recoverable |-> {u \in ex \cap DOMAIN lastFail :
                                           fs[u].mtime > lastFail[u]},
                        hasPrev |-> pass.called, prevForced |-> pass.forced,
                        quiet0 |-> quiet]
            /\ ever' = ever \cup Bindings(C.ns)
            /\ lastFail' = [u \in ((DOMAIN lastFail) \ ExecDone(C))
                                    \cup ExecFailed(C) |->
                              IF u \in ExecFailed(C) THEN fs[u].mtime
                              ELSE lastFail[u]]
            /\ stuck' = (stuck \ ExecDone(C)) \cup ExecFailed(C)
            /\ unseen' = {w \in unseen : w[1] \notin ex}
                          \cup {<<u, "missing">> :
                                  u \in {v \in SeqRange(order)
                                             \cap SeqRange(sys_modules) :
                                           Unresolvable(sys_modules, fs, v)}}
            /\ quiet' = TRUE
            /\ UNCHANGED <<sys_modules, fs, held, settingVars, shellVars,
                           edits, lastMark>>

\* check() called now would not look at unit u: the reloader is disabled,
\* or it goes by the allow-list and u is not in it
OutOfSight(u) == ~enabled \/ (~check_all /\ u \notin modules)

\* the source of u gets modification time t: it is newer than what the
\* reloader cached and was written out of check()'s sight (recorded with the
\* reason why: "off", the reloader would not look; "gone", a pass had found
\* the source missing; "back", it had been missing between two passes), or
\* it is not newer than the cache (nothing is pending any more)
Unseen(S, u, t, why) ==
    IF u \in DOMAIN modules_mtimes /\ t > modules_mtimes[u]
    THEN IF why # "off" \/ OutOfSight(u) THEN S \cup {<<u, why>>} ELSE S
    ELSE {w \in S : w[1] # u}

\* the source of unit u is rewritten: program p, modification time t
Edit(u, t, p) ==
    /\ edits < MaxEdits
    /\ u \in SeqRange(sys_modules)
    /\ fs[u].mtime # NoFile
    /\ fs' = [fs EXCEPT ![u] = [mtime |-> t, prog |-> p]]
    /\ stuck' = IF t = fs[u].mtime THEN stuck ELSE stuck \ {u}
    /\ edits' = edits + 1
    /\ unseen' = Unseen(unseen, u, t, "off")
    /\ quiet' = FALSE
    /\ UNCHANGED <<cellVars, sys_modules, ns, heap, held, settingVars, reloaderVars,
                   shellVars, pass, ever, lastFail, lastMark>>

\* mark_module_skipped(module_name), as %aimport -name does
mark_module_skipped(module_name) ==
    /\ modules' = modules \ {module_name}
    /\ skip_modules' = skip_modules \cup {module_name}
    /\ lastMark' = MapSet(lastMark, module_name, "skip")
    /\ quiet' = FALSE
    /\ UNCHANGED <<cellVars, worldVars, enabled, check_all, autoload_obj, reloaderVars,
                   shellVars, pass, ever, lastFail, stuck, edits, unseen>>

\* a mark_module_reloadable that leaves the name in the skip set
mark_module_reloadable_keep(module_name) ==
    /\ modules' = modules \cup {module_name}
    /\ lastMark' = MapSet(lastMark, module_name, "reload")
    /\ quiet' = FALSE
    /\ UNCHANGED <<cellVars, worldVars, enabled, check_all, autoload_obj, skip_modules,
                   reloaderVars, shellVars, pass, ever, lastFail, stuck, edits,
                   unseen>>

\* mark_module_reloadable(module_name), as %aimport name does
mark_module_reloadable(module_name) ==
    /\ skip_modules' = skip_modules \ {module_name}
    /\ modules' = modules \cup {module_name}
    /\ lastMark' = MapSet(lastMark, module_name, "reload")
    /\ quiet' = FALSE
    /\ UNCHANGED <<cellVars, worldVars, enabled, check_all, autoload_obj, reloaderVars,
                   shellVars, pass, ever, lastFail, stuck, edits, unseen>>

\* str.lower() on one character
LowerChar(c) ==
    CASE c = "A" -> "a" [] c = "B" -> "b" [] c = "C" -> "c" [] c = "D" -> "d"
      [] c = "E" -> "e" [] c = "F" -> "f" [] c = "G" -> "g" [] c = "H" -> "h"
      [] c = "I" -> "i" [] c = "J" -> "j" [] c = "K" -> "k" [] c = "L" -> "l"
      [] c = "M" -> "m" [] c = "N" -> "n" [] c = "O" -> "o" [] c = "P" -> "p"
      [] c = "Q" -> "q" [] c = "R" -> "r" [] c = "S" -> "s" [] c = "T" -> "t"
      [] c = "U" -> "u" [] c = "V" -> "v" [] c = "W" -> "w" [] c = "X" -> "x"
      [] c = "Y" -> "y" [] c = "Z" -> "z" [] OTHER -> c

\* a lower() that leaves every letter as it is
LowerNone(str) == str

\* str.lower(): a string is the sequence of its characters
Lower(str) == [i \in 1..Len(str) |-> LowerChar(str[i])]

\* the mode names autoreload compares with
ModeNow == <<"n", "o", "w">>
ModeOff == <<"o", "f", "f">>
ModeExplicit == <<"e", "x", "p", "l", "i", "c", "i", "t">>
ModeAll == <<"a", "l", "l">>
ModeComplete == <<"c", "o", "m", "p", "l", "e", "t", "e">>

\* parse_argstring(self.autoreload, line).mode: the argument is optional and
\* defaults to "now"
ArgMode(line) == IF line = <<>> THEN ModeNow ELSE line

\* the else branch of autoreload: no comparison matched the mode
Unrecognized(mode) ==
    mode \notin {<<>>, ModeNow, <<"0">>, ModeOff, <<"1">>, ModeExplicit,
                 <<"2">>, ModeAll, <<"3">>, ModeComplete}

\* %autoreload line
autoreload(line) ==
    LET mode == Lower(ArgMode(line)) IN
    IF mode \in {<<>>, ModeNow} THEN Check(TRUE)
    ELSE /\ CASE mode \in {<<"0">>, ModeOff} ->
                   /\ enabled' = FALSE
                   /\ UNCHANGED <<check_all, autoload_obj>>
              [] mode \in {<<"1">>, ModeExplicit} ->
                   /\ enabled' = TRUE
                   /\ check_all' = FALSE
                   /\ autoload_obj' = FALSE
              [] mode \in {<<"2">>, ModeAll} ->
                   /\ enabled' = TRUE
                   /\ check_all' = TRUE
                   /\ autoload_obj' = FALSE
              [] mode \in {<<"3">>, ModeComplete} ->
                   /\ enabled' = TRUE
                   /\ check_all' = TRUE
                   /\ autoload_obj' = TRUE
              [] Unrecognized(mode) ->              \* raise ValueError
                   UNCHANGED <<enabled, check_all, autoload_obj>>
         /\ quiet' = FALSE
         /\ UNCHANGED <<worldVars, modules, skip_modules, reloaderVars,
                        shellVars, pass, ever, lastFail, stuck, edits, lastMark,
                        unseen>>

\* no %autoreload line yet
NoMagic ==
    [called |-> FALSE, line |-> <<>>, before |-> <<FALSE, FALSE, FALSE>>,
     raised |-> ""]

\* shell.magic_autoreload(parameter), and what the caller sees of it: the
\* exception it raised, and the settings it started from
magic_autoreload(parameter) ==
    /\ autoreload(parameter)
    /\ magic' = [called |-> TRUE, line |-> parameter,
                 before |-> <<enabled, check_all, autoload_obj>>,
                 raised |-> IF Unrecognized(Lower(ArgMode(parameter)))
                            THEN "ValueError" ELSE ""]
    /\ UNCHANGED <<pc, frames, call>>


\* the objects an object refers to: an instance its class, a property its
\* getter, a class the objects in its __dict__
Targets(h, id) ==
    (IF h[id].kind = "instance" THEN {h[id].cls} ELSE {})
    \cup (IF h[id].kind = "property" THEN {h[id].slots.fget.v} ELSE {})
    \cup {h[id].dict[i][2].v :
            i \in {j \in 1..Len(h[id].dict) : IsRef(h[id].dict[j][2])}}

RECURSIVE Reach(_, _)
Reach(h, s) ==
    LET n == s \cup UNION {Targets(h, id) : id \in s}
    IN IF n = s THEN s ELSE Reach(h, n)

\* the objects the namespaces bind
Bound(nss) == {b[3] : b \in Bindings(nss)}

\* what is left of a collected object: a weak reference to it gives None
Collected == [kind |-> "collected", module |-> <<>>, slots |-> <<>>,
              dict |-> <<>>, cls |-> 0, alive |-> FALSE]

\* the garbage collector frees every object nothing reaches any more
Collect ==
    LET live == Reach(heap, held \cup Bound(ns) \cup {ExtHelper})
    IN /\ \E i \in 1..Len(heap) : heap[i].alive /\ i \notin live
       /\ heap' = [i \in 1..Len(heap) |->
                     IF i \in live THEN heap[i] ELSE Collected]
       /\ quiet' = FALSE
       /\ UNCHANGED <<cellVars, sys_modules, fs, ns, held, settingVars, reloaderVars,
                      shellVars, pass, ever, lastFail, stuck, edits, lastMark,
                      unseen>>

\* external code takes a reference to everything the namespaces bind
\* (from m import *)
HoldAll ==
    /\ ~(Bound(ns) \subseteq held)
    /\ held' = held \cup Bound(ns)
    /\ quiet' = FALSE
    /\ UNCHANGED <<cellVars, sys_modules, fs, ns, heap, settingVars, reloaderVars,
                   shellVars, pass, ever, lastFail, stuck, edits, lastMark,
                   unseen>>

\* external code constructs an instance of class c, which it got from a
\* namespace or holds, and keeps it; the constructor copies the class
\* constant K into the instance attribute k
NewInst(c) ==
    /\ c \in held \cup Bound(ns)
    /\ heap[c].kind = "type"
    /\ Cardinality({i \in 1..Len(heap) : heap[i].kind = "instance"}) < MaxInst
    /\ heap' = Append(heap,
                 [InstanceObj(heap[c].module, c) EXCEPT
                    !.dict = IF DictHas(heap[c].dict, "K")
                             THEN <<<<"k", DictGet(heap[c].dict, "K")>>>>
                             ELSE <<>>])
    /\ held' = held \cup {Len(heap) + 1}
    /\ quiet' = FALSE
    /\ UNCHANGED <<cellVars, sys_modules, fs, ns, settingVars, reloaderVars,
                   shellVars, pass, ever, lastFail, stuck, edits, lastMark,
                   unseen>>

----------------------------------------------------------------------------
(* The shell: cells that import, the post_execute hook, %aimport, and the  *)
(* source files going and coming back.                                     *)

\* os.unlink of the source of unit u
Unlink(u) ==
    /\ edits < MaxEdits
    /\ u \in SeqRange(sys_modules)
    /\ fs[u].mtime # NoFile
    /\ fs' = [fs EXCEPT ![u].mtime = NoFile]
    /\ unseen' = {w \in unseen : w[1] # u}
    /\ quiet' = FALSE
    /\ UNCHANGED <<cellVars, sys_modules, ns, heap, held, settingVars, reloaderVars,
                   shellVars, pass, ever, lastFail, stuck, edits, lastMark>>

\* the unlinked source of unit u is written again: program p, modification
\* time t
Recreate(u, t, p) ==
    /\ edits < MaxEdits
    /\ u \in SeqRange(sys_modules)
    /\ fs[u].mtime = NoFile
    /\ fs' = [fs EXCEPT ![u] = [mtime |-> t, prog |-> p]]
    /\ stuck' = IF u \in DOMAIN lastFail /\ lastFail[u] = t
                THEN stuck ELSE stuck \ {u}
    /\ edits' = edits + 1
    /\ unseen' = Unseen(unseen \ {<<u, "missing">>}, u, t,
                         IF <<u, "missing">> \in unseen THEN "gone" ELSE "back")
    /\ quiet' = FALSE
    /\ UNCHANGED <<cellVars, sys_modules, ns, heap, held, settingVars, reloaderVars,
                   shellVars, pass, ever, lastFail, lastMark>>

\* the parent packages of unit u that are not loaded yet, outermost first
NewParents(loaded, u) ==
    SelectSeq([i \in 1..(Len(u) - 1) |-> SubSeq(u, 1, i)],
              LAMBDA q : q \notin SeqRange(loaded))

\* import_module(u): nothing to do for a loaded unit; otherwise the source
\* is run in an empty namespace, and the unit is entered in sys.modules
\* after its packages; a name without a source, or a source that raises,
\* raises out of the import and leaves nothing behind
ImportInto(loaded, nss, h, files, u) ==
    IF u \in SeqRange(loaded)
    THEN [ok |-> TRUE, loaded |-> loaded, ns |-> nss, h |-> h]
    ELSE IF u \notin DOMAIN files \/ files[u].mtime = NoFile
    THEN [ok |-> FALSE, loaded |-> loaded, ns |-> nss, h |-> h]
    ELSE The({ IF X.exc
               THEN [ok |-> FALSE, loaded |-> loaded, ns |-> nss, h |-> h]
               ELSE [ok |-> TRUE,
                     loaded |-> loaded \o NewParents(loaded, u) \o <<u>>,
                     ns |-> [nss EXCEPT ![u] = X.ns], h |-> X.h] :
               X \in {Exec([ns |-> <<>>, h |-> h, exc |-> FALSE], u,
                           Progs(u)[files[u].prog], 1)} })

\* a cell runs `import u`, or other code imports u
ImportUnit(u) ==
    /\ u \notin SeqRange(sys_modules)
    /\ \E I \in {ImportInto(sys_modules, ns, heap, fs, u)} :
         /\ I.ok
         /\ sys_modules' = I.loaded
         /\ ns' = I.ns
         /\ heap' = I.h
    /\ user_ns' = DictSet(user_ns, u[1], Mod(<<u[1]>>))
    /\ ever' = ever \cup Bindings(ns')
    /\ quiet' = FALSE
    /\ UNCHANGED <<cellVars, fs, held, settingVars, reloaderVars, loaded_modules, out,
                   pass, lastFail, stuck, edits, lastMark, unseen>>

\* user_ns.update(d): every item of d, in order
RECURSIVE DictUpdate(_, _, _)
DictUpdate(t, d, i) ==
    IF i > Len(d) THEN t ELSE DictUpdate(DictSet(t, d[i][1], d[i][2]), d, i + 1)

\* a cell runs `from u import *`
ImportStar(u) ==
    /\ u \in SeqRange(sys_modules)
    /\ user_ns' = DictUpdate(user_ns, ns[u], 1)
    /\ user_ns' # user_ns
    /\ held' = held \cup {b[3] : b \in {c \in Bindings(ns) : c[1] = u}}
    /\ quiet' = FALSE
    /\ UNCHANGED <<cellVars, sys_modules, fs, ns, heap, settingVars, reloaderVars,
                   loaded_modules, out, pass, ever, lastFail, stuck, edits,
                   lastMark, unseen>>

\* the loop of post_execute_hook over the newly loaded units
RECURSIVE HookLoop(_, _, _, _, _)
HookLoop(mt, loaded, files, new, i) ==
    IF i > Len(new) THEN mt
    ELSE HookLoop(IF filename_and_mtime(loaded, files, new[i]) # NoFile
                  THEN MapSet(mt, new[i],
                              filename_and_mtime(loaded, files, new[i]))
                  ELSE mt,
                  loaded, files, new, i + 1)

\* post_execute_hook: cache the modification times of the units imported
\* since the hook last ran (it changes something only when there are any)
post_execute_hook ==
    /\ ~(SeqRange(sys_modules) \subseteq loaded_modules)
    /\ modules_mtimes' =
         HookLoop(modules_mtimes, sys_modules, fs,
                  SelectSeq(sys_modules, LAMBDA u : u \notin loaded_modules), 1)
    /\ loaded_modules' = loaded_modules \cup SeqRange(sys_modules)
    /\ quiet' = FALSE
    /\ UNCHANGED <<cellVars, worldVars, settingVars, failed, old_objects,
                   updated_obj_ids, reloaded_modules, failed_modules,
                   user_ns, out, pass, ever, lastFail, stuck, edits, lastMark,
                   unseen>>

\* one name of an %aimport line: [skip |-> it began with "-", name |-> unit],
\* on A = [modules, skip, loaded, ns, h, user_ns, mark, raised]
AimportItem(A, files, it) ==
    IF it.skip
    THEN [A EXCEPT !.modules = @ \ {it.name},
                   !.skip = @ \cup {it.name},
                   !.mark = MapSet(@, it.name, "skip")]
    ELSE The({ IF ~I.ok
               THEN [A EXCEPT !.skip = @ \ {it.name},
                              !.modules = @ \cup {it.name},
                              !.mark = MapSet(@, it.name, "reload"),
                              !.raised = "ImportError"]
               ELSE [A EXCEPT !.skip = @ \ {it.name},
                              !.modules = @ \cup {it.name},
                              !.mark = MapSet(@, it.name, "reload"),
                              !.loaded = I.loaded, !.ns = I.ns, !.h = I.h,
                              !.user_ns = DictSet(@, it.name[1],
                                                  Mod(<<it.name[1]>>))] :
               I \in {ImportInto(A.loaded, A.ns, A.h, files, it.name)} })

\* for _module in [_.strip() for _ in modname.split(",")]
RECURSIVE AimportItems(_, _, _, _)
AimportItems(A, files, line, i) ==
    IF A.raised # "" \/ i > Len(line) THEN A
    ELSE AimportItems(AimportItem(A, files, line[i]), files, line, i + 1)

\* %aimport with nothing after it: the listing.  self._reloader.modules is
\* a set, and a set has no keys(): sorted(self._reloader.modules.keys())
\* raises AttributeError before anything is written to the stream
Listing(ca, allow, skip) ==
    [called |-> TRUE, raised |-> "AttributeError", text |-> <<>>,
     ca |-> ca, allow |-> allow, skip |-> skip, same |-> TRUE]

\* %aimport line
aimport(line) ==
    IF line = <<>>
    THEN /\ quiet' = FALSE
         /\ UNCHANGED <<cellVars, worldVars, settingVars, reloaderVars, user_ns,
                        loaded_modules, pass, ever, lastFail, stuck, edits,
                        lastMark, unseen>>
         /\ out' = [Listing(check_all, modules, skip_modules) EXCEPT
                      !.same = (<<settingVars, reloaderVars>>'
                                  = <<settingVars, reloaderVars>>)]
    ELSE \E A \in {AimportItems([modules |-> modules, skip |-> skip_modules,
                                 loaded |-> sys_modules, ns |-> ns,
                                 h |-> heap, user_ns |-> user_ns,
                                 mark |-> lastMark, raised |-> ""],
                                fs, line, 1)} :
         /\ modules' = A.modules
         /\ skip_modules' = A.skip
         /\ sys_modules' = A.loaded
         /\ ns' = A.ns
         /\ heap' = A.h
         /\ user_ns' = A.user_ns
         /\ lastMark' = A.mark
         /\ ever' = ever \cup Bindings(A.ns)
         /\ quiet' = FALSE
         /\ UNCHANGED <<cellVars, fs, held, enabled, check_all, autoload_obj,
                        reloaderVars, loaded_modules, out, pass, lastFail,
                        stuck, edits, unseen>>

----------------------------------------------------------------------------
(* The specifications.                                                     *)

\* ModuleReloader.__init__: the units skipped by default
DefaultSkip ==
    {<<"__main__">>, <<"__mp_main__">>, <<"builtins">>, <<"numpy">>,
     <<"os">>, <<"pandas">>, <<"sys">>}

\* a unit freshly imported: its first program run in an empty namespace
Imported(u, h) == Exec([ns |-> <<>>, h |-> h, exc |-> FALSE], u, Progs(u)[1], 1)

\* ModuleReloader.__init__ ends with self.check(check_all=True,
\* do_reload=False), which caches the modification times of the loaded units
InitMtimes(loaded, files, skip) ==
    CheckLoop([mt |-> EmptyMap, failed |-> EmptyMap, ns |-> EmptyMap,
               h |-> <<>>, old |-> EmptyMap, upd |-> {},
               reloaded |-> <<>>, failedm |-> <<>>,
               exec |-> <<>>, raised |-> EmptyMap, report |-> <<>>],
              loaded, files, skip, loaded, 1, FALSE).mt

\* no %aimport listing yet
NoOut ==
    [called |-> FALSE, raised |-> "", text |-> <<>>,
     ca |-> FALSE, allow |-> {}, skip |-> {}, same |-> TRUE]

\* what AutoreloadMagics.__init__ leaves, whatever is loaded
InitReloader ==
    /\ autoload_obj = FALSE
    /\ failed = EmptyMap
    /\ modules = {}
    /\ skip_modules = DefaultSkip
    /\ old_objects = EmptyMap
    /\ updated_obj_ids = {}
    /\ modules_mtimes = InitMtimes(sys_modules, fs, DefaultSkip)
    /\ reloaded_modules = <<>>
    /\ failed_modules = <<>>
    /\ pass = NoPass
    /\ ever = Bindings(ns)
    /\ lastFail = EmptyMap
    /\ stuck = {}
    /\ quiet = FALSE
    /\ edits = 0
    /\ user_ns = <<>>
    /\ loaded_modules = SeqRange(sys_modules)
    /\ out = NoOut
    /\ lastMark = EmptyMap
    /\ unseen = {}
    /\ call = NoCall
    /\ magic = NoMagic
    /\ pc = "idle"
    /\ frames = <<>>

\* Spec: the reloader with the units os and p.m loaded (p is a namespace
\* package: it has no file), before any magic was used
Init ==
    /\ sys_modules = <<UnitOS, UnitP, UnitPM>>
    /\ fs = [u \in Units |->
               IF u \in {UnitOS, UnitPM} THEN [mtime |-> 1, prog |-> 1]
               ELSE [mtime |-> NoFile, prog |-> 1]]
    /\ ns = [u \in Units |->
               IF u \in {UnitOS, UnitPM} THEN Imported(u, ExtHeap).ns ELSE <<>>]
    /\ heap = ExtHeap
    /\ held = {}
    /\ enabled = FALSE
    /\ check_all = FALSE
    /\ InitReloader

\* the names %aimport is given
SkipNames == {UnitP}
ReloadNames == {UnitP, UnitPM}

Modes == {<<"0">>, <<"1">>, <<"2">>, <<"3">>}

Next ==
    \/ \E u \in {UnitOS, UnitPM}, t \in 1..MaxTime, p \in 1..Len(ProgsData) :
         Edit(u, t, p)
    \/ \E force \in BOOLEAN : Check(force) /\ UNCHANGED cellVars
    \/ \E n \in SkipNames : mark_module_skipped(n)
    \/ \E n \in ReloadNames : mark_module_reloadable(n)
    \/ \E mode \in Modes : autoreload(mode) /\ UNCHANGED cellVars

Spec == Init /\ [][Next]_vars

\* SpecReload: unit m loaded, %autoreload 2 given; external code imports
\* from m, constructs instances and drops references while m is edited
InitReload ==
    /\ sys_modules = <<UnitM>>
    /\ fs = [u \in Units |->
               IF u = UnitM THEN [mtime |-> 1, prog |-> 1]
               ELSE [mtime |-> NoFile, prog |-> 1]]
    /\ ns = [u \in Units |-> IF u = UnitM THEN Imported(u, ExtHeap).ns ELSE <<>>]
    /\ heap = Imported(UnitM, ExtHeap).h
    /\ held = {}
    /\ enabled = TRUE
    /\ check_all = TRUE
    /\ InitReloader

NextReload ==
    \/ \E p \in 1..Len(ProgsM) :
         \* the editor saves m between two cells: two saves with no check()
         \* between them look to check() like the second one alone
         /\ modules_mtimes[UnitM] = fs[UnitM].mtime
         /\ Edit(UnitM, fs[UnitM].mtime + 1, p)
    \/ Check(FALSE) /\ UNCHANGED cellVars
    \/ HoldAll
    \/ \E c \in 1..Len(heap) : NewInst(c)
    \/ Collect

SpecReload == InitReload /\ [][NextReload]_vars


\* SpecTrack: unit t loaded, %autoreload 2 given; t is edited, check() runs
\* and the collector frees what nothing reaches
InitTrack ==
    /\ sys_modules = <<UnitT>>
    /\ fs = [u \in Units |->
               IF u = UnitT THEN [mtime |-> 1, prog |-> 1]
               ELSE [mtime |-> NoFile, prog |-> 1]]
    /\ ns = [u \in Units |-> IF u = UnitT THEN Imported(u, ExtHeap).ns ELSE <<>>]
    /\ heap = Imported(UnitT, ExtHeap).h
    /\ held = {}
    /\ enabled = TRUE
    /\ check_all = TRUE
    /\ InitReloader

NextTrack ==
    \/ \E p \in 1..Len(ProgsT) :
         /\ modules_mtimes[UnitT] = fs[UnitT].mtime
         /\ Edit(UnitT, fs[UnitT].mtime + 1, p)
    \/ Check(FALSE) /\ UNCHANGED cellVars
    \/ HoldAll
    \/ Collect

SpecTrack == InitTrack /\ [][NextTrack]_vars

\* SpecClass: update_class alone.  The old and the new version of a class
\* stand side by side under the names Old and New; the class rule is applied
\* once, and external code constructs an instance before or after it
AttrChoices(key) ==
    {<<>>, <<<<key, "assign", 1>>>>, <<<<key, "assign", 2>>>>,
     <<<<key, "def", 1>>>>, <<<<key, "def", 2>>>>}

\* the attribute as a method under @property
PropChoices(key) == {<<<<key, "property", 1>>>>, <<<<key, "property", 2>>>>}

ClassBodies ==
    {a \o b : a \in AttrChoices("K"),
              b \in AttrChoices("meth") \cup PropChoices("meth")}

OldClass == DictGet(ns[UnitM], "Old").v
NewClass == DictGet(ns[UnitM], "New").v

InitClass ==
    /\ sys_modules = <<UnitM>>
    /\ fs = [u \in Units |->
               IF u = UnitM THEN [mtime |-> 1, prog |-> 1]
               ELSE [mtime |-> NoFile, prog |-> 1]]
    /\ \E po \in ClassBodies, pn \in ClassBodies :
         \E X \in {Exec([ns |-> <<>>, h |-> ExtHeap, exc |-> FALSE], UnitM,
                        <<Class("Old", po), Class("New", pn)>>, 1)} :
           /\ ns = [u \in Units |-> IF u = UnitM THEN X.ns ELSE <<>>]
           /\ heap = X.h
    /\ held = {}
    /\ enabled = TRUE
    /\ check_all = TRUE
    /\ InitReloader

\* update_class(Old, New), once
PatchClass ==
    /\ ~pass.called
    /\ \E S \in {update_class([h |-> heap, exc |-> FALSE],
                              Ref(OldClass), Ref(NewClass))} :
         /\ heap' = S.h
         /\ pass' = [NoPass EXCEPT !.called = TRUE, !.ran = TRUE, !.h0 = heap,
                                   !.raised = (UnitM :> IF S.exc THEN "patch"
                                                        ELSE "")]
    /\ quiet' = TRUE
    /\ UNCHANGED <<cellVars, sys_modules, fs, ns, held, settingVars, reloaderVars,
                   shellVars, ever, lastFail, stuck, edits, lastMark, unseen>>

NextClass ==
    \/ PatchClass
    \/ \E c \in 1..Len(heap) : NewInst(c)

SpecClass == InitClass /\ [][NextClass]_vars

\* SpecCompare: update_class on class constants that do not compare like
\* numbers (test_comparing_numpy_structures).  Old and New have the constant
\* A, or not, and after it the method meth, whose body differs
CompareChoices(key) ==
    {<<>>, <<<<key, "snan", 0>>>>}
    \cup {<<<<key, t, v>>>> : t \in {"assign", "array", "nested"}, v \in {1, 2}}

InitCompare ==
    /\ sys_modules = <<UnitM>>
    /\ fs = [u \in Units |->
               IF u = UnitM THEN [mtime |-> 1, prog |-> 1]
               ELSE [mtime |-> NoFile, prog |-> 1]]
    /\ \E po \in CompareChoices("A"), pn \in CompareChoices("A") :
         \E X \in {Exec([ns |-> <<>>, h |-> ExtHeap, exc |-> FALSE], UnitM,
                        <<Class("Old", po \o <<<<"meth", "def", 1>>>>),
                          Class("New", pn \o <<<<"meth", "def", 2>>>>)>>, 1)} :
           /\ po # <<>> /\ pn # <<>> =>
                \/ po[1][2] = pn[1][2]
                \/ {po[1][2], pn[1][2]} = {"snan", "assign"}
           /\ ns = [u \in Units |-> IF u = UnitM THEN X.ns ELSE <<>>]
           /\ heap = X.h
    /\ held = {}
    /\ enabled = TRUE
    /\ check_all = TRUE
    /\ InitReloader

SpecCompare == InitCompare /\ [][NextClass]_vars

\* SpecLayout: update_class on classes that declare __slots__ = (), or not.
\* Old and New have the method meth, or a constant of that name, or nothing
SlotChoices == {<<>>, <<<<"__slots__", "assign", 0>>>>}

LayoutBodies == {s \o b : s \in SlotChoices, b \in AttrChoices("meth")}

InitLayout ==
    /\ sys_modules = <<UnitM>>
    /\ fs = [u \in Units |->
               IF u = UnitM THEN [mtime |-> 1, prog |-> 1]
               ELSE [mtime |-> NoFile, prog |-> 1]]
    /\ \E po \in LayoutBodies, pn \in LayoutBodies :
         \E X \in {Exec([ns |-> <<>>, h |-> ExtHeap, exc |-> FALSE], UnitM,
                        <<Class("Old", po), Class("New", pn)>>, 1)} :
           /\ ns = [u \in Units |-> IF u = UnitM THEN X.ns ELSE <<>>]
           /\ heap = X.h
    /\ held = {}
    /\ enabled = TRUE
    /\ check_all = TRUE
    /\ InitReloader

SpecLayout == InitLayout /\ [][NextClass]_vars

\* SpecGeneric: update_generic alone, called once on two values.  Unit m
\* defines the classes Old and New, with a method and a property, and the
\* functions f and g; an instance of Old, bound methods, partials,
\* partialmethods and two objects that are property and partialmethod at
\* once stand beside them
GenericProg ==
    <<Class("Old", <<<<"meth", "def", 1>>, <<"prop", "property", 1>>>>),
      Class("New", <<<<"meth", "def", 2>>, <<"prop", "property", 2>>>>),
      Def("f", 1), Def("g", 2)>>

GenericHeap(X) ==
    LET Old == DictGet(X.ns, "Old")
        f == DictGet(X.ns, "f")
        g == DictGet(X.ns, "g")
        o == Ref(Len(X.h) + 1)
    IN X.h \o <<InstanceObj(UnitM, Old.v),
                MethodObj(f, o), MethodObj(g, o),
                PartialObj("partial", f), PartialObj("partial", g),
                PartialObj("partialmethod", f), PartialObj("partialmethod", g),
                PartialObj("partialmethod", Ref(Len(X.h) + 2)),
                PartialObj("partialmethod", Ref(Len(X.h) + 3)),
                PropertyMethodObj(f), PropertyMethodObj(g)>>

InitGeneric ==
    /\ sys_modules = <<UnitM>>
    /\ fs = [u \in Units |->
               IF u = UnitM THEN [mtime |-> 1, prog |-> 1]
               ELSE [mtime |-> NoFile, prog |-> 1]]
    /\ \E X \in {Exec([ns |-> <<>>, h |-> ExtHeap, exc |-> FALSE], UnitM,
                       GenericProg, 1)} :
         /\ ns = [u \in Units |-> IF u = UnitM THEN X.ns ELSE <<>>]
         /\ heap = GenericHeap(X)
         /\ held = (Len(X.h) + 1)..Len(GenericHeap(X))
    /\ enabled = TRUE
    /\ check_all = TRUE
    /\ InitReloader

\* the values update_generic is called on: every object, a number and None
Args(h) == {Ref(i) : i \in 1..Len(h)} \cup {Data(0), Data(1)}

\* update_generic(a, b), once
Dispatch(a, b) ==
    /\ ~pass.called
    /\ \E S \in {update_generic([h |-> heap, exc |-> FALSE], a, b)} :
         /\ heap' = S.h
         /\ pass' = [NoPass EXCEPT !.called = TRUE, !.ran = TRUE, !.h0 = heap,
                                   !.raised = (UnitM :> IF S.exc THEN "patch"
                                                        ELSE "")]
    /\ call' = [a |-> a, b |-> b]
    /\ quiet' = TRUE
    /\ UNCHANGED <<magic, pc, frames, sys_modules, fs, ns, held, settingVars,
                   reloaderVars, shellVars, ever, lastFail, stuck, edits,
                   lastMark, unseen>>

NextGeneric == \E a \in Args(heap), b \in Args(heap) : Dispatch(a, b)

SpecGeneric == InitGeneric /\ [][NextGeneric]_vars


\* SpecShell: a shell session with unit n.  Cells run `from n import *`,
\* %autoreload switches between the modes 2 and 3, check() runs before a
\* cell or by %autoreload now, and the source of n is edited, unlinked and
\* written again
InitShell ==
    /\ sys_modules = <<UnitN>>
    /\ fs = [u \in Units |->
               IF u = UnitN THEN [mtime |-> 1, prog |-> 1]
               ELSE [mtime |-> NoFile, prog |-> 1]]
    /\ ns = [u \in Units |-> IF u = UnitN THEN Imported(u, ExtHeap).ns ELSE <<>>]
    /\ heap = Imported(UnitN, ExtHeap).h
    /\ held = {}
    /\ enabled = FALSE
    /\ check_all = FALSE
    /\ InitReloader

ShellModes == {<<"2">>, <<"3">>}

NextShell ==
    \/ \E p \in 1..Len(ProgsN) : Edit(UnitN, fs[UnitN].mtime + 1, p)
    \/ Unlink(UnitN)
    \/ \E t \in 1..MaxTime, p \in 1..Len(ProgsN) : Recreate(UnitN, t, p)
    \/ \E force \in BOOLEAN : Check(force) /\ UNCHANGED cellVars
    \/ \E mode \in ShellModes : autoreload(mode) /\ UNCHANGED cellVars
    \/ ImportStar(UnitN)

SpecShell == InitShell /\ [][NextShell]_vars

\* SpecImport: units coming into the session.  os is loaded when the
\* extension is; p.m has a source but is imported later, by a cell, by
\* %aimport or by other code; q does not exist.  %aimport and the marks
\* change the allow-list and the skip set, the hook caches modification
\* times, and the sources are edited
InitImport ==
    /\ sys_modules = <<UnitOS>>
    /\ \E t \in 1..MaxTime :
         fs = [u \in Units |->
                 IF u = UnitOS THEN [mtime |-> 1, prog |-> 1]
                 ELSE IF u = UnitPM THEN [mtime |-> t, prog |-> 1]
                 ELSE [mtime |-> NoFile, prog |-> 1]]
    /\ ns = [u \in Units |-> IF u = UnitOS THEN Imported(u, ExtHeap).ns ELSE <<>>]
    /\ heap = ExtHeap
    /\ held = {}
    /\ enabled = FALSE
    /\ check_all = FALSE
    /\ InitReloader

\* the lines %aimport is given: "", "p.m", "-os, p.m", "q, os", "os, -os"
Lines ==
    { <<>>,
      <<[skip |-> FALSE, name |-> UnitPM]>>,
      <<[skip |-> TRUE, name |-> UnitOS], [skip |-> FALSE, name |-> UnitPM]>>,
      <<[skip |-> FALSE, name |-> UnitQ], [skip |-> FALSE, name |-> UnitOS]>>,
      <<[skip |-> FALSE, name |-> UnitOS], [skip |-> TRUE, name |-> UnitOS]>> }

MarkNames == {UnitPM, UnitQ}

NextImport ==
    \/ \E line \in Lines : aimport(line)
    \/ \E n \in MarkNames : mark_module_skipped(n)
    \/ \E n \in MarkNames : mark_module_reloadable(n)
    \/ ImportUnit(UnitPM)
    \/ post_execute_hook
    \/ Check(TRUE) /\ UNCHANGED cellVars
    \/ \E p \in 1..Len(ProgsData) : Edit(UnitPM, fs[UnitPM].mtime + 1, p)

SpecImport == InitImport /\ [][NextImport]_vars

\* SpecMode: the lines %autoreload is given (test_verbose_names), in a
\* session with unit n, to whose source names are added between the lines
ModeLines ==
    { <<>>, ModeNow, <<"N", "O", "W">>,
      <<"0">>, ModeOff, <<"O", "F", "F">>, <<"O", "f", "f">>,
      <<"1">>, ModeExplicit, <<"E", "x", "p", "l", "i", "c", "i", "t">>,
      <<"2">>, ModeAll, <<"A", "L", "L">>,
      <<"3">>, ModeComplete, <<"c", "o", "m", "p", "l", "e", "t", "E">>,
      <<"4">>, <<"i", "n", "v", "a", "l", "i", "d">>, <<"o", "n">> }

NextMode ==
    \/ \E line \in ModeLines : magic_autoreload(line)
    \/ Edit(UnitN, fs[UnitN].mtime + 1, 2)

SpecMode == InitShell /\ [][NextMode]_vars


\* SpecCell: check() taken apart into the steps of its loop, and the shell's
\* run_code taken apart into its three calls, with the editor saving the
\* sources at any moment.  An activation of check() is a frame: the list it
\* goes through, the place in it, what called it and where the caller goes on
Frame(order, force, by, ret) ==
    [order |-> order, i |-> 1, force |-> force, by |-> by, ret |-> ret]

\* a shell in which a caller does not wait for the call it made
AtShellAsync(pos) == pc = pos

\* the shell is at position pos of run_code: the calls it made before have
\* returned
AtShell(pos) == pc = pos /\ frames = <<>>

\* check() is entered: the result lists are cleared and the list of the
\* units to go through is made
CheckEnter(force, by, ret) ==
    /\ \E order \in ModulesToCheck(force, check_all, sys_modules, modules) :
         frames' = Append(frames, Frame(order, force, by, ret))
    /\ reloaded_modules' = <<>>
    /\ failed_modules' = <<>>
    /\ quiet' = FALSE
    /\ UNCHANGED <<worldVars, settingVars, failed, old_objects,
                   updated_obj_ids, modules_mtimes, shellVars, call, magic, pc,
                   pass, ever, lastFail, stuck, edits, lastMark, unseen>>

\* one turn of the loop of check(): the next unit of the list is examined
\* and, when it is due, re-executed and patched or rolled back
CheckStep ==
    /\ frames # <<>>
    /\ frames[Len(frames)].i <= Len(frames[Len(frames)].order)
    /\ \E C \in {CheckUnit([LoopStart EXCEPT !.reloaded = reloaded_modules,
                                             !.failedm = failed_modules],
                            sys_modules, fs, skip_modules,
                            frames[Len(frames)].order[frames[Len(frames)].i],
                            TRUE)} :
         /\ modules_mtimes' = C.mt
         /\ failed' = C.failed
         /\ ns' = C.ns
         /\ heap' = C.h
         /\ old_objects' = C.old
         /\ updated_obj_ids' = C.upd
         /\ reloaded_modules' = C.reloaded
         /\ failed_modules' = C.failedm
         /\ ever' = ever \cup Bindings(C.ns)
    /\ frames' = [frames EXCEPT ![Len(frames)].i = @ + 1]
    /\ quiet' = FALSE
    /\ UNCHANGED <<sys_modules, fs, held, settingVars, shellVars, call, magic, pc,
                   pass, lastFail, stuck, edits, lastMark, unseen>>

\* the loop of check() is through: check() returns to its caller
CheckReturn ==
    /\ frames # <<>>
    /\ frames[Len(frames)].i > Len(frames[Len(frames)].order)
    /\ frames' = SubSeq(frames, 1, Len(frames) - 1)
    /\ pc' = frames[Len(frames)].ret
    /\ quiet' = FALSE
    /\ UNCHANGED <<worldVars, settingVars, reloaderVars, shellVars, call, magic,
                   pass, ever, lastFail, stuck, edits, lastMark, unseen>>

\* run_code(code) is called
run_code ==
    /\ AtShell("idle")
    /\ pc' = "pre_run_cell"
    /\ quiet' = FALSE
    /\ UNCHANGED <<worldVars, settingVars, reloaderVars, shellVars, call, magic,
                   frames, pass, ever, lastFail, stuck, edits, lastMark,
                   unseen>>

\* self.events.trigger("pre_run_cell"): the hook calls check() while the
\* reloader is enabled
pre_run_cell ==
    /\ AtShell("pre_run_cell")
    /\ IF enabled
       THEN CheckEnter(FALSE, "pre_run_cell", "exec")
       ELSE /\ pc' = "exec"
            /\ quiet' = FALSE
            /\ UNCHANGED <<worldVars, settingVars, reloaderVars, shellVars,
                           call, magic, frames, pass, ever, lastFail, stuck, edits,
                           lastMark, unseen>>

\* exec(code, self.user_ns) for a cell that is `%autoreload now`
ExecNow ==
    /\ AtShell("exec")
    /\ CheckEnter(TRUE, "now", "post_execute")

\* exec(code, self.user_ns) for a cell that calls check() itself
ExecCheck ==
    /\ AtShell("exec")
    /\ IF ReturnsEarly(enabled, FALSE)
       THEN /\ pc' = "post_execute"
            /\ quiet' = FALSE
            /\ UNCHANGED <<worldVars, settingVars, reloaderVars, shellVars,
                           call, magic, frames, pass, ever, lastFail, stuck, edits,
                           lastMark, unseen>>
       ELSE CheckEnter(FALSE, "direct", "post_execute")

\* exec(code, self.user_ns) for a cell that is `%autoreload mode`
ExecMode(mode) ==
    /\ AtShell("exec")
    /\ autoreload(mode)
    /\ pc' = "post_execute"
    /\ UNCHANGED <<magic, frames, call>>

\* self.auto_magics.post_execute_hook(), and run_code returns
post_execute ==
    /\ AtShell("post_execute")
    /\ modules_mtimes' =
         HookLoop(modules_mtimes, sys_modules, fs,
                  SelectSeq(sys_modules, LAMBDA u : u \notin loaded_modules), 1)
    /\ loaded_modules' = loaded_modules \cup SeqRange(sys_modules)
    /\ pc' = "idle"
    /\ quiet' = FALSE
    /\ UNCHANGED <<worldVars, settingVars, failed, old_objects,
                   updated_obj_ids, reloaded_modules, failed_modules,
                   user_ns, out, call, magic, frames, pass, ever, lastFail, stuck,
                   edits, lastMark, unseen>>

CellModes == {<<"0">>, <<"1">>, <<"2">>}

NextCell ==
    \/ run_code
    \/ pre_run_cell
    \/ ExecNow
    \/ ExecCheck
    \/ \E mode \in CellModes : ExecMode(mode)
    \/ post_execute
    \/ CheckStep
    \/ CheckReturn
    \/ \E u \in {UnitOS, UnitPM}, p \in 1..Len(ProgsData) :
         Edit(u, fs[u].mtime + 1, p)

SpecCell == Init /\ [][NextCell]_vars


----------------------------------------------------------------------------
(* The claims.  A property of "after check() returns" is stated on the     *)
(* states in which quiet holds: check() was the last thing that happened.  *)

\* the namespace unit u has when prog ran to its end on top of namespace d
\* (for the data-only programs of os and p.m)
Reexecuted(d, u, prog) ==
    Exec([ns |-> d, h |-> ExtHeap, exc |-> FALSE], u, prog, 1).ns

\* C4 (No retry storm): once re-execution of a unit failed while its source
\* had modification time T, every later check() made while the modification
\* time is still T does not re-execute the unit and ends with the unit in
\* neither the reloaded list nor the failed list
C4_NoRetryStorm ==
    (quiet /\ pass.called) =>
        \A u \in pass.stuck0 :
            /\ u \notin SeqRange(pass.exec)
            /\ u \notin SeqRange(reloaded_modules)
            /\ u \notin SeqRange(failed_modules)

\* C7 (No-op reload): a check() that follows another check() with nothing at
\* all happening between the two, and made the same way, re-executes nothing
\* and ends with an empty reloaded list and an empty failed list
C7_NoOpReload ==
    (quiet /\ pass.called /\ pass.hasPrev /\ pass.quiet0
           /\ pass.forced = pass.prevForced) =>
        /\ pass.exec = <<>>
        /\ reloaded_modules = <<>>
        /\ failed_modules = <<>>

\* C8 (Skip set is honoured): check() never re-executes a unit whose own name
\* or one of whose proper parent-package prefixes is in the skip set
C8_SkipHonoured == quiet => pass.skipped = {}

\* C9 (Failure isolation): check() returns normally from every pass; every
\* unit that was due when the pass started was attempted, also when another
\* unit of the pass raised; and every unit whose re-execution did not raise is
\* in the reloaded list with the namespace its new source gives
C9_FailureIsolation ==
    (quiet /\ pass.ran) =>
        /\ pass.due \subseteq SeqRange(pass.exec)
        /\ \A u \in SeqRange(pass.exec) :
             pass.raised[u] = "" =>
               /\ u \in SeqRange(reloaded_modules)
               /\ ns[u] = Reexecuted(pass.ns0[u], u, Progs(u)[pass.prog[u]])

\* a pass in which os raised and p.m, visited after it, reloaded to new data
C9_Witness ==
    /\ quiet /\ pass.ran
    /\ pass.exec = <<UnitOS, UnitPM>>
    /\ pass.due = {UnitPM}
    /\ pass.raised[UnitOS] = "reload"
    /\ pass.raised[UnitPM] = ""
    /\ ns[UnitPM] # pass.ns0[UnitPM]


\* the identifiers of a namespace or class dict
Names(d) == {d[i][1] : i \in 1..Len(d)}

\* the last thing that happened is a check() that lists unit u as reloaded
Reloaded(u) == quiet /\ u \in DOMAIN pass.raised /\ pass.raised[u] = ""

\* C3 (Rollback): when the re-execution of a unit raises during check(), the
\* unit's namespace after check() has exactly the bindings, in the order, it
\* had immediately before check() was called
C3_Rollback ==
    quiet =>
        \A u \in DOMAIN pass.raised :
            pass.raised[u] = "reload" => ns[u] = pass.ns0[u]

\* the source of m rebound x and foo and then raised
C3_Witness ==
    /\ quiet
    /\ UnitM \in DOMAIN pass.raised
    /\ pass.raised[UnitM] = "reload"
    /\ pass.prog[UnitM] = 4
    /\ DictGet(ns[UnitM], "x") # Data(11)

\* C6 (No stale survival of deleted top-level names): after a successful
\* reload, a top-level name that was bound to plain data before the reload
\* and that the edited source no longer defines is absent from the namespace
C6_NoStaleNames ==
    \A u \in Units :
        Reloaded(u) =>
            \A i \in 1..Len(pass.ns0[u]) :
                (/\ ~IsRef(pass.ns0[u][i][2])
                 /\ pass.ns0[u][i][1] \notin Defines(Progs(u)[pass.prog[u]]))
                => pass.ns0[u][i][1] \notin Names(ns[u])

\* C5 (Recovery after failure): a unit whose re-execution failed at
\* modification time T and whose source now has a modification time above T
\* is re-executed by the next check() that examines it; if the re-execution
\* does not raise, the unit is in the reloaded list, not in the failed list,
\* has no entry in the failure table, and its cached modification time is
\* the one just observed
C5_Recovery ==
    (quiet /\ pass.ran) =>
        \A u \in pass.recoverable :
            /\ u \in SeqRange(pass.exec)
            /\ pass.raised[u] # "reload" =>
                 /\ u \in SeqRange(reloaded_modules)
                 /\ u \notin SeqRange(failed_modules)
                 /\ u \notin DOMAIN failed
                 /\ modules_mtimes[u] = pass.mtime[u]

\* identifier number i of m's namespace is the first one under which object o
\* was bound and which is now bound to something else
FirstIdent(o, i) ==
    \A j \in 1..(i - 1) :
        ~(/\ <<UnitM, ns[UnitM][j][1], o>> \in ever
          /\ ns[UnitM][j][2] # Ref(o))

\* C1 (Identity preservation): after every successful reload of m, a held
\* function object that m defined and bound to a top-level name, now bound
\* to a new function, runs the body of that new function when called.  (The
\* name is taken to be the first identifier the object was bound to: the
\* engine patches an object once per reload.)
C1_IdentityPreservation ==
    Reloaded(UnitM) =>
        \A f \in held : \A i \in 1..Len(ns[UnitM]) :
            (/\ heap[f].kind = "function"
             /\ heap[f].module = UnitM
             /\ <<UnitM, ns[UnitM][i][1], f>> \in ever
             /\ IsRef(ns[UnitM][i][2])
             /\ ns[UnitM][i][2].v # f
             /\ heap[ns[UnitM][i][2].v].kind = "function"
             /\ FirstIdent(f, i))
            => Call(heap, f) = Call(heap, ns[UnitM][i][2].v)


\* the class body the source prog gives the name T (through name = other)
RECURSIVE ClassSrc(_, _)
ClassSrc(prog, T) ==
    LET st == prog[CHOOSE i \in 1..Len(prog) : prog[i].name = T]
    IN IF st.op = "alias" THEN ClassSrc(prog, st.src) ELSE st.attrs

\* the methods a class body defines, and all the names it defines
SrcMethods(attrs) == {attrs[i][1] : i \in {j \in 1..Len(attrs) : attrs[j][2] = "def"}}
SrcNames(attrs) == {attrs[i][1] : i \in 1..Len(attrs)}

\* the methods of class object c in heap h
Methods(h, c) ==
    {h[c].dict[i][1] :
       i \in {j \in 1..Len(h[c].dict) : IsInstance(h, h[c].dict[j][2], "function")}}

\* what C2 promises instance i after a reload that rebound identifier number
\* n of m's namespace from i's class to a new class: i has the new class as
\* its type, on which the methods the edit added are found and the methods
\* the edit removed are not
Retargeted(i, n) ==
    LET T == ns[UnitM][n][1]
        c == pass.h0[i].cls
        src == ClassSrc(Progs(UnitM)[pass.prog[UnitM]], T)
    IN /\ heap[i].cls = ns[UnitM][n][2].v
       /\ \A k \in SrcMethods(src) \ Names(pass.h0[c].dict) :
            k \in Methods(heap, heap[i].cls)
       /\ \A k \in Methods(pass.h0, c) \ SrcNames(src) :
            k \notin Names(heap[i].dict) \cup Names(heap[heap[i].cls].dict)

\* identifier number n of m's namespace was bound to the class instance i
\* had before the pass, and the pass rebound it to a new class
Redefined(i, n) ==
    /\ i \in 1..Len(pass.h0)
    /\ pass.h0[i].kind = "instance"
    /\ <<UnitM, ns[UnitM][n][1], pass.h0[i].cls>> \in ever
    /\ IsRef(ns[UnitM][n][2])
    /\ ns[UnitM][n][2].v # pass.h0[i].cls
    /\ heap[ns[UnitM][n][2].v].kind = "type"

\* C2 as stated (Instance retargeting): after every successful reload that
\* redefines T, every instance of an earlier version of T has the unit's
\* current T as its exact type, with the added methods and without the
\* removed ones
C2_Original ==
    Reloaded(UnitM) =>
        \A i \in held : \A n \in 1..Len(ns[UnitM]) :
            Redefined(i, n) => Retargeted(i, n)

\* C2 amended (Instance retargeting): the same, for T the first identifier
\* of the namespace that was bound to the instance's class and is rebound
C2_InstanceRetargeting ==
    Reloaded(UnitM) =>
        \A i \in held : \A n \in 1..Len(ns[UnitM]) :
            (Redefined(i, n) /\ FirstIdent(pass.h0[i].cls, n))
            => Retargeted(i, n)

\* an instance of the first Baz went through the reload that deleted zzz and
\* added power
C2_Witness ==
    /\ Reloaded(UnitM)
    /\ pass.prog[UnitM] = 3
    /\ \E i \in held : \E n \in 1..Len(ns[UnitM]) :
         /\ Redefined(i, n) /\ FirstIdent(pass.h0[i].cls, n)
         /\ "zzz" \in Methods(pass.h0, pass.h0[i].cls)
         /\ "power" \in Methods(heap, heap[i].cls)


\* before the class rule ran, Old and New both had the attribute key, with
\* values that are not equal and are not both callable-like
SharedData(key) ==
    /\ key \in Names(pass.h0[OldClass].dict) \cap Names(pass.h0[NewClass].dict)
    /\ ~PyEq(DictGet(pass.h0[OldClass].dict, key),
             DictGet(pass.h0[NewClass].dict, key))
    /\ \/ ~IsCallableLike(pass.h0, DictGet(pass.h0[OldClass].dict, key))
       \/ ~IsCallableLike(pass.h0, DictGet(pass.h0[NewClass].dict, key))

\* the old type and the new type hold the old value under key
OldWins(key) ==
    /\ TypeGetAttr(heap, OldClass, key) = DictGet(pass.h0[OldClass].dict, key)
    /\ TypeGetAttr(heap, NewClass, key) = DictGet(pass.h0[OldClass].dict, key)

\* an instance that existed before the class rule ran keeps its attributes;
\* one constructed from New afterwards copied the old value of K
InstancesSeeOld ==
    \A i \in 1..Len(heap) :
        heap[i].kind = "instance" =>
            IF i <= Len(pass.h0)
            THEN heap[i].dict = pass.h0[i].dict
            ELSE (heap[i].cls = NewClass /\ SharedData("K")) =>
                   DictGet(heap[i].dict, "k")
                     = DictGet(pass.h0[OldClass].dict, "K")

ImportedFrom(u) ==
    \E i \in 1..Len(pass.ns0[u]) :
        /\ DictHas(user_ns, pass.ns0[u][i][1])
        /\ DictGet(user_ns, pass.ns0[u][i][1]) = pass.ns0[u][i][2]

\* C11 (Auto-injection of new names): after a successful reload of a unit
\* whose names the caller's working scope imported, every top-level
\* identifier the new source introduces (one the namespace did not have
\* before the reload) is bound in the working scope to the unit's new object
\* when the autoload flag is set (mode 3), and is not bound there when the
\* flag is off
C11_AutoInjection ==
    \A u \in Units :
        (Reloaded(u) /\ ImportedFrom(u)) =>
            \A i \in 1..Len(ns[u]) :
                ns[u][i][1] \notin Names(pass.ns0[u]) =>
                    IF autoload_obj
                    THEN /\ DictHas(user_ns, ns[u][i][1])
                         /\ DictGet(user_ns, ns[u][i][1]) = ns[u][i][2]
                    ELSE ~DictHas(user_ns, ns[u][i][1])


\* the cached modification time of unit u is what it was when the pass began
SameCache(u) ==
    IF u \in DOMAIN pass.mt0
    THEN u \in DOMAIN modules_mtimes /\ modules_mtimes[u] = pass.mt0[u]
    ELSE u \notin DOMAIN modules_mtimes

\* C12 (Explicit allow-list mode): a check() made without forcing while the
\* reloader is enabled and the scan-all flag is off goes through units of the
\* allow-list only; a loaded unit that is not in the allow-list is not
\* re-executed and keeps its cached modification time, whatever happened to
\* its source
C12_AllowListOnly ==
    (quiet /\ pass.ran /\ ~pass.forced /\ ~check_all) =>
        /\ pass.listed \subseteq modules
        /\ SeqRange(pass.exec) \subseteq modules
        /\ \A u \in SeqRange(sys_modules) \ modules :
             /\ u \notin SeqRange(reloaded_modules) \cup SeqRange(failed_modules)
             /\ ns[u] = pass.ns0[u]
             /\ SameCache(u)

\* p.m, in the allow-list, was re-executed by a pass that left alone os, whose
\* source is newer than its cached modification time
C12_Witness ==
    /\ quiet /\ pass.ran /\ ~pass.forced /\ ~check_all
    /\ UnitPM \in SeqRange(reloaded_modules)
    /\ UnitOS \notin modules
    /\ fs[UnitOS].mtime > modules_mtimes[UnitOS]


\* unit u is one a pass that had it in its list could look at: no parent
\* package in the skip set, and a source that resolves
InReach(u) ==
    /\ u \in pass.listed
    /\ ~ParentSkipped(skip_modules, u)
    /\ filename_and_mtime(sys_modules, fs, u) # NoFile

\* C13 (Disable then re-enable): a check() made without forcing while
\* reloading is disabled re-executes nothing, changes no namespace and no
\* cached modification time, and leaves pending what was pending; a unit
\* whose source got newer than its cached modification time while reloading
\* was disabled, or while the unit was out of the allow-list in explicit
\* mode, is re-executed by the first pass (forced, or made once reloading is
\* enabled again or the unit is in the allow-list again) that has the unit in
\* its list
C13_DisableEnable ==
    /\ (quiet /\ pass.called /\ ~pass.forced /\ ~enabled) =>
         /\ pass.exec = <<>>
         /\ ns = pass.ns0
         /\ modules_mtimes = pass.mt0
         /\ unseen = pass.unseen0
    /\ (quiet /\ pass.ran) =>
         \A w \in pass.unseen0 :
             (w[2] = "off" /\ InReach(w[1])) =>
                 w[1] \in SeqRange(pass.exec)

\* p.m was edited out of check()'s sight, and a check() made after
\* %autoreload 2, following a call that was not forced, re-executed it
C13_Witness ==
    /\ quiet /\ pass.ran /\ ~pass.forced /\ check_all
    /\ pass.hasPrev /\ ~pass.prevForced
    /\ <<UnitPM, "off">> \in pass.unseen0
    /\ UnitPM \in SeqRange(reloaded_modules)
    /\ ns[UnitPM] # pass.ns0[UnitPM]


\* the failure record of unit u is what it was when the pass began
SameFailure(u) ==
    IF u \in DOMAIN pass.failed0
    THEN u \in DOMAIN failed /\ failed[u] = pass.failed0[u]
    ELSE u \notin DOMAIN failed

\* C14 (Unresolvable unit): a pass of check() returns without re-executing a
\* unit of its list whose source does not resolve, lists it neither as
\* reloaded nor as failed, and leaves its namespace, its cached modification
\* time and its failure record as they were; a unit whose source came back
\* with a modification time above the cached one is re-executed by the first
\* pass that has it in its list
C14_Unresolvable ==
    (quiet /\ pass.ran) =>
        /\ \A u \in pass.nofile :
             /\ u \notin SeqRange(pass.exec)
             /\ u \notin SeqRange(reloaded_modules) \cup SeqRange(failed_modules)
             /\ u \in DOMAIN ns => ns[u] = pass.ns0[u]
             /\ SameCache(u)
             /\ SameFailure(u)
        /\ \A w \in pass.unseen0 :
             (w[2] \in {"gone", "back"} /\ InReach(w[1])) =>
                 w[1] \in SeqRange(pass.exec)

\* a pass found the source of n missing; the source was written again with a
\* newer modification time, and the next pass re-executed n
C14_Witness ==
    /\ quiet /\ pass.ran
    /\ <<UnitN, "gone">> \in pass.unseen0
    /\ UnitN \in SeqRange(reloaded_modules)
    /\ ns[UnitN] # pass.ns0[UnitN]


\* C15 (First-sight baseline): a pass of check() that looks at a unit which
\* has no cached modification time stores the modification time the source
\* has and does not re-execute the unit, whatever that time is and whatever
\* the source holds; a unit is re-executed only by a pass that finds a
\* modification time strictly above the cached one
C15_FirstSight ==
    (quiet /\ pass.ran) =>
        /\ \A u \in pass.examined \ DOMAIN pass.mt0 :
             /\ u \notin SeqRange(pass.exec)
             /\ u \in DOMAIN modules_mtimes
             /\ modules_mtimes[u] = fs[u].mtime
             /\ ns[u] = pass.ns0[u]
        /\ \A u \in SeqRange(pass.exec) :
             /\ u \in DOMAIN pass.mt0
             /\ pass.mtime[u] > pass.mt0[u]

\* p.m was imported and its source rewritten before any check() or hook saw
\* it: the pass cached the new modification time and left the namespace of
\* the first source
C15_Witness ==
    /\ quiet /\ pass.ran
    /\ UnitPM \in pass.examined \ DOMAIN pass.mt0
    /\ fs[UnitPM].prog = 2
    /\ modules_mtimes[UnitPM] > 1
    /\ ~DictHas(ns[UnitPM], "y")


\* the number of calls of the report callback for unit u in the last pass
Reports(u) == Cardinality({i \in 1..Len(pass.report) : pass.report[i] = u})

\* C16 as stated (Reporting): during a pass the report callback is called
\* exactly once for each unit successfully reloaded in the pass, and not at
\* all for a unit whose re-execution fails or that is not re-executed
C16_Original ==
    (quiet /\ pass.ran) =>
        \A u \in SeqRange(sys_modules) \cup modules :
            Reports(u) = IF u \in SeqRange(reloaded_modules) THEN 1 ELSE 0

\* C16 amended (Reporting): during a pass the report callback is called
\* exactly once for each unit whose re-execution the pass attempts, the ones
\* that end in the reloaded list and the ones that end in the failed list,
\* and not at all for a unit that is not re-executed
C16_Reporting ==
    (quiet /\ pass.ran) =>
        \A u \in SeqRange(sys_modules) \cup modules :
            Reports(u) = IF u \in SeqRange(reloaded_modules)
                                  \cup SeqRange(failed_modules)
                         THEN 1 ELSE 0

\* the re-execution of n raised, and the callback had been called for n
C16_Witness ==
    /\ quiet /\ pass.ran
    /\ failed_modules = <<UnitN>>
    /\ reloaded_modules = <<>>
    /\ pass.raised[UnitN] = "reload"
    /\ pass.report = <<UnitN>>


\* the units of the last call of check() whose re-execution was attempted and
\* ended well (ok) or did not, in the order of the attempts
Attempted(ok) ==
    SelectSeq(pass.exec, LAMBDA u : (pass.raised[u] = "") = ok)

\* C17 (Result surfaces describe the last pass only): after every call of
\* check(), a call made without forcing while the reloader is disabled
\* included, the reloaded list holds exactly the units the call re-executed
\* successfully and the failed list exactly the units whose re-execution
\* failed in the call
C17_LastPassOnly ==
    (quiet /\ pass.called) =>
        /\ reloaded_modules = Attempted(TRUE)
        /\ failed_modules = Attempted(FALSE)


\* C18 (Timestamp invariant): after any call of check(), the cached
\* modification time of every loaded unit that has one and whose source
\* resolves is at most the modification time the source has, whatever
\* happened to the source before the call, a change to an earlier
\* modification time included
C18_TimestampInvariant ==
    (quiet /\ pass.called) =>
        \A u \in DOMAIN modules_mtimes :
            ~Unresolvable(sys_modules, fs, u) =>
                modules_mtimes[u] <= fs[u].mtime


\* C19 (Skip set and allow-list stay disjoint): whatever marks were given,
\* through mark_module_skipped, mark_module_reloadable or %aimport lines of
\* one or several names, no name is in both the skip set and the allow-list,
\* and a name that was marked is in the set its latest mark names and not in
\* the other
C19_Disjoint ==
    /\ modules \cap skip_modules = {}
    /\ \A n \in DOMAIN lastMark :
         IF lastMark[n] = "skip"
         THEN n \in skip_modules /\ n \notin modules
         ELSE n \in modules /\ n \notin skip_modules

\* every name was marked: os, skipped by default, ended in the skip set,
\* p.m was imported and is in the allow-list, and q is in the allow-list
\* although importing it raised
C19_Witness ==
    /\ DOMAIN lastMark = {UnitOS, UnitPM, UnitQ}
    /\ lastMark[UnitOS] = "skip"
    /\ lastMark[UnitPM] = "reload"
    /\ lastMark[UnitQ] = "reload"
    /\ UnitPM \in SeqRange(sys_modules)
    /\ UnitPM \notin skip_modules


\* the place of a unit name in sorted(): the order of the dotted names
\* "__main__" < "__mp_main__" < "builtins" < "m" < "n" < "numpy" < "os" < "p"
\* < "p.m" < "pandas" < "q" < "sys"
SortKey(u) ==
    CASE u = <<"__main__">> -> 1
      [] u = <<"__mp_main__">> -> 2
      [] u = <<"builtins">> -> 3
      [] u = UnitM -> 4
      [] u = UnitN -> 5
      [] u = <<"numpy">> -> 6
      [] u = UnitOS -> 7
      [] u = UnitP -> 8
      [] u = UnitPM -> 9
      [] u = <<"pandas">> -> 10
      [] u = UnitQ -> 11
      [] u = <<"sys">> -> 12

\* sequence q is sorted(s)
IsSorted(q, s) ==
    /\ Len(q) = Cardinality(s)
    /\ SeqRange(q) = s
    /\ \A i \in 1..(Len(q) - 1) : SortKey(q[i]) < SortKey(q[i + 1])

\* C20 (Listing): %aimport with an empty argument does not raise; it writes
\* "Modules to reload:" followed by "all-except-skipped" when the scan-all
\* flag is on and by the sorted names of the allow-list otherwise, then
\* "Modules to skip:" followed by the sorted names of the skip set; and it
\* changes nothing of the reloader
C20_Listing ==
    out.called =>
        /\ out.raised = ""
        /\ Len(out.text) = 4
        /\ out.text[1] = "Modules to reload:"
        /\ IF out.ca THEN out.text[2] = "all-except-skipped"
           ELSE IsSorted(out.text[2], out.allow)
        /\ out.text[3] = "Modules to skip:"
        /\ IsSorted(out.text[4], out.skip)
        /\ out.same

\* the lines that name a mode: its number, or its verbose name in some
\* letter case
ModeSpellings ==
    [n \in {"0", "1", "2", "3"} |->
       CASE n = "0" -> {<<"0">>, <<"o", "f", "f">>, <<"O", "F", "F">>,
                        <<"O", "f", "f">>}
         [] n = "1" -> {<<"1">>, <<"e", "x", "p", "l", "i", "c", "i", "t">>,
                        <<"E", "x", "p", "l", "i", "c", "i", "t">>}
         [] n = "2" -> {<<"2">>, <<"a", "l", "l">>, <<"A", "L", "L">>}
         [] n = "3" -> {<<"3">>, <<"c", "o", "m", "p", "l", "e", "t", "e">>,
                        <<"c", "o", "m", "p", "l", "e", "t", "E">>}]

\* the lines that ask for a pass now: no mode, or "now" in some letter case
NowSpellings == {<<>>, <<"n", "o", "w">>, <<"N", "O", "W">>}

\* (enabled, check_all, autoload_obj) after the numeric mode n, given from
\* the settings b
NumericSettings(n, b) ==
    CASE n = "0" -> <<FALSE, b[2], b[3]>>
      [] n = "1" -> <<TRUE, FALSE, FALSE>>
      [] n = "2" -> <<TRUE, TRUE, FALSE>>
      [] n = "3" -> <<TRUE, TRUE, TRUE>>

\* the last %autoreload line named mode n, did not raise, and left what the
\* numeric mode leaves
LikeNumeric(n) ==
    /\ magic.raised = ""
    /\ <<enabled, check_all, autoload_obj>> = NumericSettings(n, magic.before)

\* the last %autoreload line raised ValueError and left the settings alone
Refused ==
    /\ magic.raised = "ValueError"
    /\ <<enabled, check_all, autoload_obj>> = magic.before

\* C21 as stated (Mode names): a numeric mode and its verbose name in any
\* letter case leave identical (enabled, check_all, autoload_obj); any other
\* mode string raises ValueError and leaves the three settings unchanged
C21_Original ==
    magic.called =>
        IF \E n \in DOMAIN ModeSpellings : magic.line \in ModeSpellings[n]
        THEN \A n \in DOMAIN ModeSpellings :
                 magic.line \in ModeSpellings[n] => LikeNumeric(n)
        ELSE Refused

\* C21 amended (Mode names): the same, but no mode and the mode "now" in any
\* letter case do not raise either: they run a forced pass and leave the
\* three settings unchanged
C21_ModeNames ==
    magic.called =>
        IF \E n \in DOMAIN ModeSpellings : magic.line \in ModeSpellings[n]
        THEN \A n \in DOMAIN ModeSpellings :
                 magic.line \in ModeSpellings[n] => LikeNumeric(n)
        ELSE IF magic.line \in NowSpellings
             THEN /\ magic.raised = ""
                  /\ <<enabled, check_all, autoload_obj>> = magic.before
                  /\ pass.ran /\ pass.forced
             ELSE Refused

\* "OFF" was given in mode 3: the reloader is disabled, the two other
\* settings are as mode 3 left them
C21_Witness ==
    /\ magic.called
    /\ magic.line = <<"O", "F", "F">>
    /\ magic.before = <<TRUE, TRUE, TRUE>>
    /\ <<enabled, check_all, autoload_obj>> = <<FALSE, TRUE, TRUE>>

OldVal(key) == DictGet(pass.h0[OldClass].dict, key)
NewVal(key) == DictGet(pass.h0[NewClass].dict, key)

\* before the class rule ran, Old and New both had the attribute key, with
\* values that are not equal and are both callable-like
SharedCallable(key) ==
    /\ key \in Names(pass.h0[OldClass].dict) \cap Names(pass.h0[NewClass].dict)
    /\ ~PyEq(OldVal(key), NewVal(key))
    /\ IsCallableLike(pass.h0, OldVal(key))
    /\ IsCallableLike(pass.h0, NewVal(key))

\* the two values under key were of one kind: a rule of the dispatcher
\* matched them
SameKind(key) == FirstRule(pass.h0, OldVal(key), NewVal(key)) # 0

\* the body a callable-like value runs in heap h: a function when called, a
\* property when read
Behaviour(h, x) ==
    IF h[x.v].kind = "property" THEN Call(h, h[x.v].slots.fget.v)
    ELSE Call(h, x.v)

\* C23 as stated (Method precedence): for a class attribute on both types
\* with unequal callable-like values, the old value is patched in place and
\* the old type's attribute is overwritten with the new value only if no
\* kind matched; with values of one kind the old type still holds the old
\* attribute object, which carries the new behaviour
C23_Original ==
    pass.called =>
        \A key \in Names(pass.h0[OldClass].dict) :
            SharedCallable(key) =>
                IF SameKind(key)
                THEN /\ TypeGetAttr(heap, OldClass, key) = OldVal(key)
                     /\ Behaviour(heap, OldVal(key))
                          = Behaviour(pass.h0, NewVal(key))
                ELSE TypeGetAttr(heap, OldClass, key) = NewVal(key)

\* C23 amended (Method precedence): for such an attribute the old type's
\* attribute is overwritten with the new value whether a kind matches or
\* not, and the old value is then handed to the dispatcher: with values of
\* one kind the old attribute object carries the new behaviour too, with
\* values of two kinds it is left as it was
C23_MethodPrecedence ==
    pass.called =>
        \A key \in Names(pass.h0[OldClass].dict) :
            SharedCallable(key) =>
                /\ TypeGetAttr(heap, OldClass, key) = NewVal(key)
                /\ TypeGetAttr(heap, NewClass, key) = NewVal(key)
                /\ IF SameKind(key)
                   THEN Behaviour(heap, OldVal(key))
                          = Behaviour(pass.h0, NewVal(key))
                   ELSE heap[OldVal(key).v] = pass.h0[OldVal(key).v]

\* meth was a function with body 1 on Old and one with body 2 on New: Old
\* now holds New's function object, and Old's former one runs body 2
C23_Witness ==
    /\ pass.called
    /\ SharedCallable("meth") /\ SameKind("meth")
    /\ pass.h0[OldVal("meth").v].kind = "function"
    /\ Behaviour(pass.h0, OldVal("meth")) = 1
    /\ TypeGetAttr(heap, OldClass, "meth") = NewVal("meth")
    /\ Behaviour(heap, OldVal("meth")) = 2

\* C24 (Attribute-patch failures are local): when the re-execution of m
\* went through, no failure to write, delete or copy a single attribute or
\* function slot leaves the patch: m is reported as reloaded and not as
\* failed, and the instances of a class the pass rebound (under its first
\* identifier) were retargeted
C24_LocalFailures ==
    (quiet /\ pass.ran /\ UnitM \in SeqRange(pass.exec)
           /\ pass.raised[UnitM] # "reload") =>
        /\ pass.raised[UnitM] = ""
        /\ UnitM \in SeqRange(reloaded_modules)
        /\ UnitM \notin SeqRange(failed_modules)
        /\ UnitM \notin DOMAIN failed
        /\ \A i \in held : \A n \in 1..Len(ns[UnitM]) :
             (Redefined(i, n) /\ FirstIdent(pass.h0[i].cls, n))
             => heap[i].cls = ns[UnitM][n][2].v

\* the precedence rule was applied to key: between two callable-like values
\* the old type took the new one, otherwise both types hold the old one
PrecedenceApplied(key) ==
    IF IsCallableLike(pass.h0, OldVal(key)) /\ IsCallableLike(pass.h0, NewVal(key))
    THEN TypeGetAttr(heap, OldClass, key) = NewVal(key)
    ELSE OldWins(key)

\* C25 (Comparison failures count as not equal): an attribute whose old and
\* new values compare equal is left untouched on both types; when the
\* comparison raises, whatever the error, or gives something other than
\* True, the precedence rule is applied, and nothing is raised out of the
\* class rule
C25_ComparisonFailures ==
    pass.called =>
        /\ pass.raised[UnitM] = ""
        /\ \A key \in (Names(pass.h0[OldClass].dict)
                         \cap Names(pass.h0[NewClass].dict)) \ {"__dict__"} :
             IF Compare(OldVal(key), NewVal(key)) = "True"
             THEN /\ TypeGetAttr(heap, OldClass, key) = OldVal(key)
                  /\ TypeGetAttr(heap, NewClass, key) = NewVal(key)
             ELSE PrecedenceApplied(key)

\* before the class rule ran, key was defined on Old with a callable-like
\* value and was absent on New
Obsolete(key) ==
    /\ key \in Names(pass.h0[OldClass].dict) \ Names(pass.h0[NewClass].dict)
    /\ IsCallableLike(pass.h0, OldVal(key))

\* no instance exposes key: it is neither in the instance's own attributes
\* nor on the instance's type
Unexposed(key) ==
    \A i \in 1..Len(heap) :
        heap[i].kind = "instance" =>
            key \notin Names(heap[i].dict) \cup Names(heap[heap[i].cls].dict)

\* C26 (Obsolete callables are removed): after the class rule, every
\* attribute that was defined on the old type with a callable-like value and
\* was absent on the new type is gone from the old type, and no instance,
\* made before or after the patch, exposes it; no attribute that was present
\* on the new type has been deleted from either type
C26_ObsoleteRemoved ==
    pass.called =>
        /\ \A key \in Names(pass.h0[OldClass].dict) :
             Obsolete(key) =>
                 /\ key \notin Names(heap[OldClass].dict)
                 /\ key \notin Names(heap[NewClass].dict)
                 /\ Unexposed(key)
        /\ \A key \in Names(pass.h0[NewClass].dict) :
             /\ key \in Names(heap[NewClass].dict)
             /\ key \in Names(pass.h0[OldClass].dict)
                  => key \in Names(heap[OldClass].dict)

\* meth was a property of Old that New does not have; an instance made from
\* Old before the patch went through it
C26_Witness ==
    /\ pass.called
    /\ Obsolete("meth")
    /\ pass.h0[OldVal("meth").v].kind = "property"
    /\ "K" \in Names(pass.h0[NewClass].dict)
    /\ \E i \in 1..Len(pass.h0) :
         /\ pass.h0[i].kind = "instance"
         /\ pass.h0[i].cls = OldClass
         /\ heap[i].cls = NewClass

\* the heap as the first loop of the class rule left it
AfterOldKeys ==
    ClassOldKeys([h |-> pass.h0, exc |-> FALSE], OldClass, NewClass,
                 DictKeys(pass.h0[OldClass].dict), 1).h

\* C27 (Added attributes become visible): after the class rule, every
\* attribute that was defined on the new type and not on the old type is
\* defined on the old type with the new type's value, and every attribute
\* the old type had when the copying began is as it was then
C27_AddedVisible ==
    pass.called =>
        /\ \A key \in Names(pass.h0[NewClass].dict)
                        \ Names(pass.h0[OldClass].dict) :
             /\ TypeGetAttr(heap, OldClass, key) = NewVal(key)
             /\ TypeGetAttr(heap, NewClass, key) = NewVal(key)
        /\ \A key \in Names(AfterOldKeys[OldClass].dict) :
             TypeGetAttr(heap, OldClass, key)
               = TypeGetAttr(AfterOldKeys, OldClass, key)

\* New added the method meth to a class that had only the constant K, which
\* New changed; an instance was made from Old after the patch
C27_Witness ==
    /\ pass.called
    /\ "meth" \in Names(pass.h0[NewClass].dict) \ Names(pass.h0[OldClass].dict)
    /\ IsInstance(heap, TypeGetAttr(heap, OldClass, "meth"), "function")
    /\ SharedData("K")
    /\ \E i \in 1..Len(heap) :
         /\ i > Len(pass.h0)
         /\ heap[i].kind = "instance"
         /\ heap[i].cls = OldClass


\* C28: after update_class(Old, New), which ends in update_instances, every
\* live object whose exact type was Old has the type New and every other
\* instance keeps its type; no instance is created or destroyed, and the
\* attribute values of the instances are unchanged.
C28_RetargetingExact ==
    (quiet /\ pass.called) =>
        /\ Len(heap) = Len(pass.h0)
        /\ \A i \in 1..Len(pass.h0) :
             /\ (heap[i].kind = "instance") = (pass.h0[i].kind = "instance")
             /\ pass.h0[i].kind = "instance" =>
                  /\ heap[i].alive = pass.h0[i].alive
                  /\ heap[i].dict = pass.h0[i].dict
                  /\ heap[i].cls = IF i \in InstancesOf(pass.h0, OldClass)
                                   THEN NewClass
                                   ELSE pass.h0[i].cls


\* the kinds in the order the dispatcher tries them
RuleOrder ==
    <<"type", "function", "method", "property", "partial", "partialmethod">>

\* the places in RuleOrder whose predicate holds for both a and b
Matching(h, a, b) ==
    {i \in 1..Len(RuleOrder) : isinstance2(h, a, b, RuleOrder[i])}

\* what the rule at place i of RuleOrder does to a and b
Applied(S, a, b, i) ==
    CASE i = 1 -> update_class(S, a, b)
      [] i = 2 -> update_function(S, a, b)
      [] i = 3 -> update_method(S, a, b)
      [] i = 4 -> update_property(S, a, b)
      [] i = 5 -> update_partial(S, a, b)
      [] i = 6 -> update_partialmethod(S, a, b)

\* the last action was update_generic(call.a, call.b)
Dispatched == quiet /\ pass.called /\ call # NoCall

\* C29 (Dispatcher): update_generic(a, b) changes nothing and raises
\* nothing when a and b are the same object or when no kind predicate holds
\* for both; otherwise what it does is what one rule does, the first in the
\* order class, function, bound method, property, partial, partialmethod
\* whose predicate holds for both, so that two classes get the class rule.
C29_Dispatcher ==
    Dispatched =>
        LET m == Matching(pass.h0, call.a, call.b)
            after == [h |-> heap, exc |-> pass.raised[UnitM] = "patch"]
        IN IF call.a = call.b \/ m = {}
           THEN after = [h |-> pass.h0, exc |-> FALSE]
           ELSE \E i \in m :
                  /\ \A j \in m : i <= j
                  /\ after = Applied([h |-> pass.h0, exc |-> FALSE],
                                     call.a, call.b, i)
                  /\ isinstance2(pass.h0, call.a, call.b, "type") => i = 1

\* update_generic was called on two objects for which two predicates hold,
\* and the rule it applied changed the old one's getter
C29_Witness ==
    /\ Dispatched
    /\ Cardinality(Matching(pass.h0, call.a, call.b)) = 2
    /\ pass.raised[UnitM] = ""
    /\ heap # pass.h0


\* C30 (Tracking entries hold distinct objects): whatever passes of check()
\* ran (reloads that succeeded, reloads that failed, reloads that left a
\* binding as it was), no entry of the tracking table holds two references
\* to the same live object.
C30_DistinctEntries ==
    \A key \in DOMAIN old_objects :
        \A i, j \in 1..Len(old_objects[key]) :
            (i # j /\ heap[old_objects[key][i]].alive)
                => old_objects[key][i] # old_objects[key][j]


\* C31 (Tracking table pruning): after a pass of check() the tracking table
\* has no empty entry, and after it reloaded a unit with success no entry
\* of that unit refers to an object that was collected before the pass.
C31_Pruning ==
    (quiet /\ pass.ran) =>
        /\ \A key \in DOMAIN old_objects : old_objects[key] # <<>>
        /\ \A key \in DOMAIN old_objects :
             Reloaded(key[1]) =>
                 \A i \in 1..Len(old_objects[key]) :
                     old_objects[key][i] <= Len(pass.h0)
                         => pass.h0[old_objects[key][i]].alive


\* C32 (Tracking is part of the success path): a pass of check() in which
\* the re-execution of every unit it reloaded failed leaves the tracking
\* table as it was before the pass.
C32_TrackingOnSuccess ==
    [][(quiet' /\ pass'.ran
        /\ \A u \in DOMAIN pass'.raised : pass'.raised[u] = "reload")
           => old_objects' = old_objects]_vars


\* C33 (Failed means rolled back): after a pass of check(), the namespace
\* of every unit that the failed list names and the failure table records
\* is the namespace the unit had before the pass, also when the error was
\* raised while the old objects were patched.
C33_FailedRolledBack ==
    (quiet /\ pass.ran) =>
        \A u \in SeqRange(failed_modules) \cap DOMAIN failed :
            ns[u] = pass.ns0[u]


\* the objects the tracking table holds for the i-th name of unit t
Entry(i) ==
    IF <<UnitT, ns[UnitT][i][1]>> \in DOMAIN old_objects
    THEN SeqRange(old_objects[<<UnitT, ns[UnitT][i][1]>>])
    ELSE {}

\* the patch loop found old object o under the i-th name
FoundUnder(o, i) == o <= Len(pass.h0) /\ pass.h0[o].alive /\ o \in Entry(i)

\* ... and the name is now bound to another object
ChangedUnder(o, i) == FoundUnder(o, i) /\ ns[UnitT][i][2] # Ref(o)

\* the bodies function n ran during the reload: n is a function the
\* re-execution made, or an older one that the reload may have patched
Bodies(n) ==
    {Call(heap, n)} \cup (IF n <= Len(pass.h0) THEN {Call(pass.h0, n)} ELSE {})

\* old object o is what patching it toward the value n, and toward nothing
\* else, makes of it: a function runs the body of n, the instances of a
\* class are instances of n; with n the object itself, or of another kind,
\* nothing changed
PatchedToward(o, n) ==
    LET other == IsRef(n) /\ n # Ref(o) /\ heap[n.v].kind = pass.h0[o].kind
    IN /\ pass.h0[o].kind = "function" =>
            IF other THEN Call(heap, o) \in Bodies(n.v)
            ELSE Call(heap, o) = Call(pass.h0, o)
       /\ pass.h0[o].kind = "type" =>
            \A x \in InstancesOf(pass.h0, o) :
                heap[x].cls = IF other THEN n.v ELSE o

\* the old objects the last reload of t has found
Found == {o \in 1..Len(pass.h0) : \E i \in 1..Len(ns[UnitT]) : FoundUnder(o, i)}

\* C34 (Patch at most once per round): after a reload of t, the patched set
\* holds the old objects handed to the dispatcher in this reload and no
\* other, and each old object found is patched toward the new value of the
\* first identifier under which it is found, and toward nothing else.
C34_PatchOnce ==
    Reloaded(UnitT) =>
        /\ updated_obj_ids =
             {o \in Found : \E i \in 1..Len(ns[UnitT]) : ChangedUnder(o, i)}
        /\ \A o \in Found : \A i \in 1..Len(ns[UnitT]) :
             (FoundUnder(o, i) /\ \A j \in 1..(i - 1) : ~FoundUnder(o, j))
                 => PatchedToward(o, ns[UnitT][i][2])

\* what holds instead: the identifier that counts is the first one under
\* which the object is found and which is now bound to another object; an
\* object found under no such identifier is not patched
C34_FirstChanged ==
    Reloaded(UnitT) =>
        /\ updated_obj_ids =
             {o \in Found : \E i \in 1..Len(ns[UnitT]) : ChangedUnder(o, i)}
        /\ \A o \in Found :
             /\ \A i \in 1..Len(ns[UnitT]) :
                  (ChangedUnder(o, i) /\ \A j \in 1..(i - 1) : ~ChangedUnder(o, j))
                      => PatchedToward(o, ns[UnitT][i][2])
             /\ (\A i \in 1..Len(ns[UnitT]) : ~ChangedUnder(o, i))
                  => PatchedToward(o, Ref(o))


\* before the class rule ran, key was defined on Old with a value that is
\* not callable-like and was absent on New
DeletedData(key) ==
    /\ key \in Names(pass.h0[OldClass].dict) \ Names(pass.h0[NewClass].dict)
    /\ ~IsCallableLike(pass.h0, OldVal(key))

\* what reading key on instance i gives through the instance's type
ReadOnType(i, key) == TypeGetAttr(heap, heap[i].cls, key)

\* C35 (Deleted class-level data survives): after the class rule, an
\* attribute that was defined on the old type with a value that is not
\* callable-like and was absent on the new type is still on the old type
\* with its old value, the new type has it with that value too, and every
\* instance of the old and of the new type, made before or after the patch,
\* reads the old value.
C35_DeletedDataSurvives ==
    pass.called =>
        \A key \in Names(pass.h0[OldClass].dict) :
            DeletedData(key) =>
                /\ TypeGetAttr(heap, OldClass, key) = OldVal(key)
                /\ TypeGetAttr(heap, NewClass, key) = OldVal(key)
                /\ \A i \in 1..Len(heap) :
                     (heap[i].kind = "instance"
                      /\ heap[i].cls \in {OldClass, NewClass})
                         => ReadOnType(i, key) = OldVal(key)

\* the constant K was on Old only, an instance made from Old before the
\* patch is now an instance of New, which has K
C35_Witness ==
    /\ pass.called
    /\ DeletedData("K")
    /\ \E i \in 1..Len(pass.h0) :
         /\ pass.h0[i].kind = "instance"
         /\ pass.h0[i].cls = OldClass
         /\ heap[i].cls = NewClass
         /\ ReadOnType(i, "K") = OldVal("K")


\* no element occurs twice in sequence s
OnceEach(s) == \A i, j \in DOMAIN s : s[i] = s[j] => i = j

\* the units whose most recent re-execution raised
ExecutionFailed == DOMAIN lastFail

\* C36 (Reloaded and failed are disjoint): after any pass of check(), no
\* unit is in both the reloaded list and the failed list, no name occurs
\* twice in either list, and the failure table has an entry for a unit
\* only if the unit's most recent re-execution failed.
C36_ReloadedFailedDisjoint ==
    pass.called =>
        /\ SeqRange(reloaded_modules) \cap SeqRange(failed_modules) = {}
        /\ OnceEach(reloaded_modules)
        /\ OnceEach(failed_modules)
        /\ DOMAIN failed \subseteq ExecutionFailed

====
